---------------------------- MODULE Spec2Model ----------------------------
(***************************************************************************)
(* Claw Game tournament engine: commit-reveal protocol, player-derived     *)
(* secret, elimination, and the phase state machine driven by the          *)
(* background tournament manager (src/api/game_engine.py, src/api/main.py, *)
(* src/api/models.py, src/api/config.py).                                  *)
(*                                                                         *)
(* Conventions                                                             *)
(*  - A participant (agent) is identified by its wallet address, stored    *)
(*    lower-cased; addresses are modelled by the integers 1..NumAgents,    *)
(*    whose order stands for the string order of the addresses.            *)
(*  - Hex strings (salts, commit hashes) are sequences of one-character    *)
(*    strings, without the constant "0x" prefix.                           *)
(*  - A nullable column holding NULL is modelled by None.                  *)
(*  - Table rows are grouped by their lookup key: entries[t][a] is the     *)
(*    sequence of TournamentEntry rows of agent a in tournament t, and     *)
(*    commits[r][a] the sequence of RoundCommit rows of agent a with       *)
(*    round_id r (r = 0 is the placeholder used by join_tournament).       *)
(*    The code never observes the relative order of rows with different    *)
(*    keys: every multi-row read is order-insensitive or sorted.           *)
(*  - Every request handler and manager pass runs in one database          *)
(*    transaction; each is one atomic action under Spec and LiveSpec.      *)
(*    RaceSpec lets two of them overlap: see the section on executions in  *)
(*    flight.                                                              *)
(***************************************************************************)
EXTENDS Integers, Sequences, FiniteSets, TLC

(***************************************************************************)
(* Bounds of the model                                                     *)
(***************************************************************************)
\* config.MAX_PLAYERS is 25 in the source; the model runs a scaled-down arena.
MAX_PLAYERS == 6
\* number of registered agents: one more than a tournament holds
NumAgents == 7
\* number of tournaments created by the manager's first pass
NumTournaments == 2
\* agents 1..NumOutsiders are the ones that also try the second tournament
NumOutsiders == 1
\* the clock is observed at 0..MaxShortSteps short steps from 0 and from the
\* end of the cancel window
MaxShortSteps == 4
\* number of bytes of a salt (32 in the source)
SaltBytes == 1
\* clock steps of the fair specification
MaxLiveSteps == 4
\* longest list of salts passed to compute_secret on its own
MaxSalts == 3
\* most participants passed to eliminate and determine_final_ranking on
\* their own
MaxFnPlayers == 7
\* executions that may be in flight together
MaxInFlight == 2
\* phase lengths the clock of RaceSpec runs through
MaxRaceSteps == 1

(***************************************************************************)
(* Program constants                                                       *)
(***************************************************************************)
None == -1

OPEN == 0
ACTIVE == 1
COMMIT == 2
REVEAL == 3
RESOLVING == 4
FINISHED == 5
CANCELLED == 6

CLASSIC == 0
INVERSE == 1

BID_MIN == 1
BID_MAX == 1000
COMMIT_DURATION == 300
REVEAL_DURATION == 300
CANCEL_DEADLINE == 604800
\* `len(...) <= 5` in eliminate and resolve_round
FINALIST_THRESHOLD == 5
\* `% 1000` in compute_secret
SECRET_MODULUS == 1000

Agents == 1..NumAgents
\* the agents that send requests to a tournament filling up
Players == 1..MAX_PLAYERS
TIds == 1..NumTournaments

(***************************************************************************)
(* Hex strings and bytes                                                   *)
(***************************************************************************)
HexDigits == <<"0","1","2","3","4","5","6","7","8","9","a","b","c","d","e","f">>
UpperDigits == <<"0","1","2","3","4","5","6","7","8","9","A","B","C","D","E","F">>
HexChars == {HexDigits[i] : i \in 1..16} \cup {UpperDigits[i] : i \in 1..16}

\* int(c, 16): the value of one hex character, either case
Nibble(c) == CHOOSE n \in 0..15 : HexDigits[n + 1] = c \/ UpperDigits[n + 1] = c

\* ord(c): the code point python's string comparison uses
\* ('0'..'9' = 48..57, 'A'..'F' = 65..70, 'a'..'f' = 97..102)
Ord(c) ==
    LET n == Nibble(c) IN
    IF n < 10 THEN 48 + n
    ELSE IF UpperDigits[n + 1] = c THEN 55 + n ELSE 87 + n

\* str.lower()
Lower(s) == [i \in DOMAIN s |-> HexDigits[Nibble(s[i]) + 1]]
\* str.upper(), used to build inputs
Upper(s) == [i \in DOMAIN s |-> UpperDigits[Nibble(s[i]) + 1]]

\* bytes.fromhex(s) for a string of even length
FromHex(s) == [i \in 1..(Len(s) \div 2) |-> 16 * Nibble(s[2 * i - 1]) + Nibble(s[2 * i])]

\* bytes.hex(): lower-case digits, two per byte
ToHex(bs) ==
    [i \in 1..(2 * Len(bs)) |->
        IF i % 2 = 1 THEN HexDigits[(bs[(i + 1) \div 2] \div 16) + 1]
                     ELSE HexDigits[(bs[i \div 2] % 16) + 1]]

\* to_bytes that keeps the low byte only
ToBytes2_low_byte(bid) == <<0, bid % 256>>

\* bid.to_bytes(2, "big")
ToBytes2(bid) == <<bid \div 256, bid % 256>>

\* python's `<` on str: lexicographic by code point
RECURSIVE StrLess(_, _)
StrLess(s, t) ==
    IF t = <<>> THEN FALSE
    ELSE IF s = <<>> THEN TRUE
    ELSE IF Ord(Head(s)) # Ord(Head(t)) THEN Ord(Head(s)) < Ord(Head(t))
    ELSE StrLess(Tail(s), Tail(t))

(***************************************************************************)
(* hashlib.sha3_256, as an ideal hash: the digest is injective in the      *)
(* data (it carries the data) and its 4-byte prefix is a position-         *)
(* sensitive checksum of all of the data.                                  *)
(***************************************************************************)
RECURSIVE Checksum(_, _)
Checksum(acc, bs) ==
    IF bs = <<>> THEN acc
    ELSE Checksum((acc * 131 + Head(bs) + 1) % 1000003, Tail(bs))

sha3_256(data) ==
    LET h == Checksum(7, data) IN
    <<0, h \div 65536, (h \div 256) % 256, h % 256>> \o data

\* int.from_bytes(bs, "big") for up to four bytes with bs[1] = 0
RECURSIVE FromBytes(_)
FromBytes(bs) ==
    IF bs = <<>> THEN 0 ELSE 256 * FromBytes(SubSeq(bs, 1, Len(bs) - 1)) + bs[Len(bs)]

(***************************************************************************)
(* GameEngine: commit-reveal                                               *)
(***************************************************************************)
compute_commit_hash(bid, salt) ==
    LET bid_bytes == ToBytes2(bid)
        salt_bytes == FromHex(salt)
        data == bid_bytes \o salt_bytes
    IN ToHex(sha3_256(data))

\* verify_reveal that accepts every pair
verify_reveal_always(commit_hash, bid, salt) == TRUE

verify_reveal(commit_hash, bid, salt) ==
    LET computed == compute_commit_hash(bid, salt)
    IN Lower(computed) = Lower(commit_hash)

(***************************************************************************)
(* GameEngine: player-derived randomness                                   *)
(***************************************************************************)
\* sorted(salts): ascending by python string order (insertion sort; equal
\* strings are indistinguishable, so stability is immaterial)
RECURSIVE InsertSorted(_, _)
InsertSorted(x, s) ==
    IF s = <<>> THEN <<x>>
    ELSE IF StrLess(x, Head(s)) THEN <<x>> \o s
    ELSE <<Head(s)>> \o InsertSorted(x, Tail(s))

RECURSIVE SortedStrs(_)
SortedStrs(s) == IF s = <<>> THEN <<>> ELSE InsertSorted(Head(s), SortedStrs(Tail(s)))

RECURSIVE ConcatBytes(_)
ConcatBytes(salts) ==
    IF salts = <<>> THEN <<>> ELSE FromHex(Head(salts)) \o ConcatBytes(Tail(salts))

\* compute_secret without the sort
compute_secret_unsorted(salts) ==
    LET combined == ConcatBytes(salts)
        hash_bytes == sha3_256(combined)
    IN (FromBytes(SubSeq(hash_bytes, 1, 4)) % SECRET_MODULUS) + 1

compute_secret(salts) ==
    LET combined == ConcatBytes(SortedStrs(salts))
        hash_bytes == sha3_256(combined)
    IN (FromBytes(SubSeq(hash_bytes, 1, 4)) % SECRET_MODULUS) + 1

(***************************************************************************)
(* GameEngine: elimination                                                 *)
(***************************************************************************)
Abs(x) == IF x < 0 THEN -x ELSE x

\* a python dict address -> int is the sequence of its items <<address, int>>
\* in insertion order; the addresses of a dict are pairwise distinct
DictKeys(dict) == [i \in DOMAIN dict |-> dict[i][1]]

KeySet(dict) == {dict[i][1] : i \in DOMAIN dict}

Items(dict) == {dict[i] : i \in DOMAIN dict}

\* dict[addr]
Get(dict, addr) == dict[CHOOSE i \in DOMAIN dict : dict[i][1] = addr][2]

\* distances without the absolute value
compute_distances_signed(bids, secret) ==
    [i \in DOMAIN bids |-> <<bids[i][1], bids[i][2] - secret>>]

compute_distances(bids, secret) ==
    [i \in DOMAIN bids |-> <<bids[i][1], Abs(bids[i][2] - secret)>>]

\* a sort key that breaks ties by descending address
SortKey_descending_address(item, variant) ==
    IF variant = INVERSE THEN <<-item[2], -item[1]>> ELSE <<item[2], -item[1]>>

\* the sort key of an item x of distances.items(): (x[1], x[0]) or (-x[1], x[0])
SortKey(item, variant) ==
    IF variant = INVERSE THEN <<-item[2], item[1]>> ELSE <<item[2], item[1]>>

\* python's `<` on the key tuples
KeyLess(k1, k2) == k1[1] < k2[1] \/ (k1[1] = k2[1] /\ k1[2] < k2[2])

\* sorted(distances.items(), key=...) projected on the addresses: the keys
\* are pairwise distinct (addresses are), so the order is the unique
\* ascending one
RECURSIVE SortedPlayers(_, _)
SortedPlayers(variant, left) ==
    IF left = {} THEN <<>>
    ELSE LET first == CHOOSE x \in left :
                        \A y \in left \ {x} : KeyLess(SortKey(x, variant), SortKey(y, variant))
         IN <<first[1]>> \o SortedPlayers(variant, left \ {first})

SeqToSet(s) == {s[i] : i \in DOMAIN s}

\* eliminate that rounds the number of survivors down
eliminate_floor(distances, variant) ==
    IF Len(distances) <= FINALIST_THRESHOLD
    THEN [survivors |-> DictKeys(distances), eliminated |-> <<>>]
    ELSE LET sorted_players == SortedPlayers(variant, Items(distances))
             survive_count == Len(sorted_players) \div 2
         IN [survivors |-> SubSeq(sorted_players, 1, survive_count),
             eliminated |-> SubSeq(sorted_players, survive_count + 1, Len(sorted_players))]

\* returns the pair (survivors, eliminated)
eliminate(distances, variant) ==
    IF Len(distances) <= FINALIST_THRESHOLD
    THEN [survivors |-> DictKeys(distances), eliminated |-> <<>>]
    ELSE LET sorted_players == SortedPlayers(variant, Items(distances))
             survive_count == (Len(sorted_players) + 1) \div 2
         IN [survivors |-> SubSeq(sorted_players, 1, survive_count),
             eliminated |-> SubSeq(sorted_players, survive_count + 1, Len(sorted_players))]

determine_final_ranking(distances, variant) ==
    SortedPlayers(variant, Items(distances))

(***************************************************************************)
(* The database (src/api/models.py)                                        *)
(***************************************************************************)
VARIABLES
    tournaments,    \* Tournament rows, by id
    entries,        \* TournamentEntry rows, by tournament id and agent
    rounds,         \* Round rows; the id of a row is its index
    commits,        \* RoundCommit rows, by round_id and agent
    now,            \* datetime.utcnow(), in seconds
    call,           \* the pure-function call under test, with its result
    sessions        \* the request handlers and manager passes in flight

vars == <<tournaments, entries, rounds, commits, now, call, sessions>>

\* round ids that can be allocated: every tournament has at most one
\* elimination round per halving of MAX_PLAYERS; 0 is the placeholder
RoundIds == 0..(NumTournaments * MAX_PLAYERS)

NewTournament(created) ==
    [state |-> OPEN, variant |-> CLASSIC, player_count |-> 0, current_round |-> 0,
     winner_address |-> None, finalist_addresses |-> <<>>,
     created_at |-> created, started_at |-> None, finished_at |-> None,
     phase_deadline |-> None, resolve_tx |-> None]

NewEntry ==
    [is_alive |-> TRUE, final_rank |-> None]

NewRound(tid, number, players, commit_dl, reveal_dl) ==
    [tournament_id |-> tid, round_number |-> number, secret_number |-> None,
     players_start |-> players, players_end |-> 0,
     commit_deadline |-> commit_dl, reveal_deadline |-> reveal_dl, resolved_at |-> None]

\* bid is None and salt is <<>> until revealed
NewCommit(commit_hash) ==
    [commit_hash |-> commit_hash, bid |-> None, salt |-> <<>>, revealed |-> FALSE,
     eliminated |-> FALSE, distance |-> None]

\* the database as one value, so that handlers are functions of it
DB == [tournaments |-> tournaments, entries |-> entries, rounds |-> rounds, commits |-> commits]

\* select(Round).where(tournament_id == tid, round_number == n): the ids found
FindRounds(d, tid, n) ==
    {r \in DOMAIN d.rounds :
        d.rounds[r].tournament_id = tid /\ d.rounds[r].round_number = n}

(***************************************************************************)
(* GameEngine: tournament flow                                             *)
(***************************************************************************)
start_tournament(d, tid, t) ==
    LET round1 == NewRound(tid, 1, d.tournaments[tid].player_count, None, t + REVEAL_DURATION)
    IN [d EXCEPT !.rounds = Append(d.rounds, round1),
                 !.tournaments[tid].started_at = t,
                 !.tournaments[tid].current_round = 1,
                 !.tournaments[tid].state = REVEAL,
                 !.tournaments[tid].phase_deadline = round1.reveal_deadline]

\* start_new_round that opens the Commit phase without a fresh deadline
start_new_round_stale_deadline(d, tid, alive_count, t) ==
    LET number == d.tournaments[tid].current_round + 1
        new_round == NewRound(tid, number, alive_count, t + COMMIT_DURATION, None)
    IN [d EXCEPT !.rounds = Append(d.rounds, new_round),
                 !.tournaments[tid].current_round = number,
                 !.tournaments[tid].state = COMMIT]

\* start_new_round that leaves the round counter of the tournament as it was
start_new_round_counter_kept(d, tid, alive_count, t) ==
    LET number == d.tournaments[tid].current_round + 1
        new_round == NewRound(tid, number, alive_count, t + COMMIT_DURATION, None)
    IN [d EXCEPT !.rounds = Append(d.rounds, new_round),
                 !.tournaments[tid].state = COMMIT,
                 !.tournaments[tid].phase_deadline = new_round.commit_deadline]

start_new_round(d, tid, alive_count, t) ==
    LET number == d.tournaments[tid].current_round + 1
        new_round == NewRound(tid, number, alive_count, t + COMMIT_DURATION, None)
    IN [d EXCEPT !.rounds = Append(d.rounds, new_round),
                 !.tournaments[tid].current_round = number,
                 !.tournaments[tid].state = COMMIT,
                 !.tournaments[tid].phase_deadline = new_round.commit_deadline]

\* open_reveal_phase counting the reveal window from the commit deadline
open_reveal_phase_from_commit_deadline(d, rid, t) ==
    LET tid == d.rounds[rid].tournament_id
        deadline == d.rounds[rid].commit_deadline + REVEAL_DURATION
    IN [d EXCEPT !.rounds[rid].reveal_deadline = deadline,
                 !.tournaments[tid].state = REVEAL,
                 !.tournaments[tid].phase_deadline = deadline]

open_reveal_phase(d, rid, t) ==
    LET tid == d.rounds[rid].tournament_id
        deadline == t + REVEAL_DURATION
    IN [d EXCEPT !.rounds[rid].reveal_deadline = deadline,
                 !.tournaments[tid].state = REVEAL,
                 !.tournaments[tid].phase_deadline = deadline]

\* `c.revealed and c.bid is not None and c.salt is not None`
CountsAsRevealed(c) == c.revealed /\ c.bid # None /\ c.salt # <<>>

\* revealed_salts: the salts of the revealed rows of a round
RECURSIVE RowSalts(_)
RowSalts(rows) ==
    IF rows = <<>> THEN <<>>
    ELSE (IF CountsAsRevealed(Head(rows)) THEN <<Head(rows).salt>> ELSE <<>>)
         \o RowSalts(Tail(rows))

RECURSIVE RevealedSalts(_, _)
RevealedSalts(rc, a) ==
    IF a > NumAgents THEN <<>> ELSE RowSalts(rc[a]) \o RevealedSalts(rc, a + 1)

\* non_revealers that lists nobody
NonRevealers_nobody(rc, a) == <<>>

\* non_revealers: one element per row that does not count as revealed
RECURSIVE NonRevealers(_, _)
NonRevealers(rc, a) ==
    IF a > NumAgents THEN <<>>
    ELSE [i \in 1..Len(SelectSeq(rc[a], LAMBDA c : ~CountsAsRevealed(c))) |-> a]
         \o NonRevealers(rc, a + 1)

\* revealed_bids: one item per agent with a revealed row, holding the bid of
\* its last revealed row, in the order of the rows
RECURSIVE RevealedBids(_, _)
RevealedBids(rc, a) ==
    IF a > NumAgents THEN <<>>
    ELSE LET rows == SelectSeq(rc[a], CountsAsRevealed)
         IN (IF rows = <<>> THEN <<>> ELSE <<(<<a, rows[Len(rows)].bid>>)>>)
            \o RevealedBids(rc, a + 1)

\* entry.is_alive = False for every address of addrs that has an entry
KillEntries(te, addrs) ==
    [a \in Agents |->
        IF a \in addrs THEN [i \in DOMAIN te[a] |-> [te[a][i] EXCEPT !.is_alive = FALSE]]
        ELSE te[a]]

\* returns the database after the call and the result dict
resolve_round(d, rid, t) ==
    LET tid == d.rounds[rid].tournament_id
        rc == d.commits[rid]
        revealed_bids == RevealedBids(rc, 1)
        revealed_salts == RevealedSalts(rc, 1)
        non_revealers == NonRevealers(rc, 1)
        \* first loop: non-revealers' rows are flagged eliminated
        rc1 == [a \in Agents |->
                  [i \in DOMAIN rc[a] |->
                      IF CountsAsRevealed(rc[a][i]) THEN rc[a][i]
                      ELSE [rc[a][i] EXCEPT !.eliminated = TRUE]]]
    IN
    IF revealed_salts = <<>>
    THEN [db |-> [d EXCEPT !.commits[rid] = rc1,
                           !.rounds[rid].secret_number = 0,
                           !.rounds[rid].players_end = 0,
                           !.rounds[rid].resolved_at = t],
          type |-> "no_reveals", ranking |-> <<>>, survivors |-> <<>>,
          eliminated |-> non_revealers, non_revealers |-> non_revealers]
    ELSE
    LET secret == compute_secret(revealed_salts)
        distances == compute_distances(revealed_bids, secret)
        rc2 == [a \in Agents |->
                  [i \in DOMAIN rc1[a] |->
                      IF a \in KeySet(distances)
                      THEN [rc1[a][i] EXCEPT !.distance = Get(distances, a)]
                      ELSE rc1[a][i]]]
    IN
    IF Len(revealed_bids) <= FINALIST_THRESHOLD
    THEN LET ranking == determine_final_ranking(distances, d.tournaments[tid].variant)
         IN [db |-> [d EXCEPT !.commits[rid] = rc2,
                              !.rounds[rid].secret_number = secret,
                              !.rounds[rid].players_end = Len(ranking),
                              !.rounds[rid].resolved_at = t],
             type |-> "final", ranking |-> ranking, survivors |-> <<>>,
             eliminated |-> <<>>, non_revealers |-> non_revealers]
    ELSE LET split == eliminate(distances, d.tournaments[tid].variant)
             out == SeqToSet(split.eliminated)
             rc3 == [a \in Agents |->
                       [i \in DOMAIN rc2[a] |->
                           IF a \in out THEN [rc2[a][i] EXCEPT !.eliminated = TRUE]
                           ELSE rc2[a][i]]]
         IN [db |-> [d EXCEPT !.commits[rid] = rc3,
                              !.entries[tid] =
                                  KillEntries(d.entries[tid], out \cup SeqToSet(non_revealers)),
                              !.rounds[rid].secret_number = secret,
                              !.rounds[rid].players_end = Len(split.survivors),
                              !.rounds[rid].resolved_at = t,
                              !.tournaments[tid].state = RESOLVING],
             type |-> "elimination", ranking |-> <<>>, survivors |-> split.survivors,
             eliminated |-> split.eliminated \o non_revealers,
             non_revealers |-> non_revealers]

\* ranking[lo:hi] of python, 0-based and clipped
Slice(s, lo, hi) ==
    SubSeq(s, lo + 1, IF hi < Len(s) THEN hi ELSE Len(s))

\* finish_tournament that gives every ranked participant the rank 1
finish_tournament_all_first(d, tid, ranking, t) ==
    LET top == Slice(ranking, 0, FINALIST_THRESHOLD)
        te == d.entries[tid]
        ranked == [a \in Agents |->
                     IF \E i \in DOMAIN top : top[i] = a
                     THEN [n \in DOMAIN te[a] |-> [te[a][n] EXCEPT !.final_rank = 1]]
                     ELSE te[a]]
    IN [d EXCEPT !.tournaments[tid].state = FINISHED,
                 !.tournaments[tid].finished_at = t,
                 !.tournaments[tid].winner_address =
                     IF ranking # <<>> THEN ranking[1] ELSE None,
                 !.tournaments[tid].finalist_addresses =
                     IF Len(ranking) > 1 THEN Slice(ranking, 1, FINALIST_THRESHOLD) ELSE <<>>,
                 !.entries[tid] = ranked]

finish_tournament(d, tid, ranking, t) ==
    LET top == Slice(ranking, 0, FINALIST_THRESHOLD)
        te == d.entries[tid]
        ranked == [a \in Agents |->
                     IF \E i \in DOMAIN top : top[i] = a
                     THEN LET i == CHOOSE j \in DOMAIN top :
                                     top[j] = a /\ \A k \in DOMAIN top : top[k] = a => k <= j
                          IN [n \in DOMAIN te[a] |-> [te[a][n] EXCEPT !.final_rank = i]]
                     ELSE te[a]]
    IN [d EXCEPT !.tournaments[tid].state = FINISHED,
                 !.tournaments[tid].finished_at = t,
                 !.tournaments[tid].winner_address =
                     IF ranking # <<>> THEN ranking[1] ELSE None,
                 !.tournaments[tid].finalist_addresses =
                     IF Len(ranking) > 1 THEN Slice(ranking, 1, FINALIST_THRESHOLD) ELSE <<>>,
                 !.entries[tid] = ranked]

(***************************************************************************)
(* Request handlers (src/api/main.py).  Each returns the HTTP status and   *)
(* the database the request leaves behind: get_db commits on a normal      *)
(* return and rolls back on any exception, so every status other than 200  *)
(* leaves the database as it was.                                          *)
(***************************************************************************)
Reject(d, code, detail) == [db |-> d, status |-> code, detail |-> detail]
Accept(d) == [db |-> d, status |-> 200, detail |-> "ok"]

\* the loop of join_tournament over the rows with round_id == 0: every row
\* whose agent has an entry in tournament tid is re-attached to round rid
AttachPlaceholderCommits(d, tid, rid) ==
    LET moved == {a \in Agents : d.entries[tid][a] # <<>>}
    IN [d EXCEPT !.commits[rid] =
                     [a \in Agents |->
                         IF a \in moved THEN d.commits[rid][a] \o d.commits[0][a]
                         ELSE d.commits[rid][a]],
                 !.commits[0] =
                     [a \in Agents |-> IF a \in moved THEN <<>> ELSE d.commits[0][a]]]

\* `paid` is the answer of the on-chain payment check (TRUE also when the
\* check is skipped)
\* join_tournament from the payment check on (main.py 272-316): the entry
\* and the placeholder commitment are inserted; the join that fills the
\* tournament starts it and re-attaches the placeholders, looking up the
\* entry of each placeholder's agent with scalar_one_or_none
join_insert(d, tid, agent, commit_hash, paid, t) ==
    IF ~paid THEN Reject(d, 402, "Entry fee not paid on-chain")
    ELSE
    LET d1 == [d EXCEPT !.entries[tid][agent] = Append(@, NewEntry),
                        !.tournaments[tid].player_count = @ + 1,
                        !.commits[0][agent] = Append(@, NewCommit(commit_hash))]
    IN IF d1.tournaments[tid].player_count >= MAX_PLAYERS
       THEN LET d2 == start_tournament(d1, tid, t)
            IN IF \E a \in Agents : d2.commits[0][a] # <<>> /\ Len(d2.entries[tid][a]) > 1
               THEN Reject(d, 500, "MultipleResultsFound")
               ELSE Accept(AttachPlaceholderCommits(d2, tid, Len(d2.rounds)))
       ELSE Accept(d1)

\* join_tournament without the lookup of an existing entry
join_tournament_rejoin(d, tid, agent, commit_hash, paid, t) ==
    LET tournament == d.tournaments[tid] IN
    IF tournament.state # OPEN THEN Reject(d, 400, "Tournament not open for registration")
    ELSE IF tournament.player_count >= MAX_PLAYERS THEN Reject(d, 400, "Tournament full")
    ELSE join_insert(d, tid, agent, commit_hash, paid, t)

join_tournament(d, tid, agent, commit_hash, paid, t) ==
    LET tournament == d.tournaments[tid] IN
    IF tournament.state # OPEN THEN Reject(d, 400, "Tournament not open for registration")
    ELSE IF tournament.player_count >= MAX_PLAYERS THEN Reject(d, 400, "Tournament full")
    ELSE IF Len(d.entries[tid][agent]) > 1 THEN Reject(d, 500, "MultipleResultsFound")
    ELSE IF Len(d.entries[tid][agent]) = 1 THEN Reject(d, 409, "Already joined this tournament")
    ELSE join_insert(d, tid, agent, commit_hash, paid, t)

\* submit_commit without the is_alive filter of its entry query
submit_commit_no_alive_filter(d, tid, agent, commit_hash, t) ==
    LET tournament == d.tournaments[tid]
        found == FindRounds(d, tid, tournament.current_round)
    IN
    IF tournament.state # COMMIT THEN Reject(d, 400, "Not in commit phase")
    ELSE IF Len(d.entries[tid][agent]) > 1 THEN Reject(d, 500, "MultipleResultsFound")
    ELSE IF d.entries[tid][agent] = <<>> THEN Reject(d, 403, "Not alive in this tournament")
    ELSE IF tournament.phase_deadline # None /\ t > tournament.phase_deadline
         THEN Reject(d, 400, "Commit phase ended")
    ELSE IF Cardinality(found) # 1 THEN Reject(d, 500, "Round not found")
    ELSE
    LET current_round == CHOOSE r \in found : TRUE
        existing == d.commits[current_round][agent]
    IN IF Len(existing) > 1 THEN Reject(d, 500, "MultipleResultsFound")
       ELSE IF Len(existing) = 1 THEN Reject(d, 409, "Already committed this round")
       ELSE Accept([d EXCEPT !.commits[current_round][agent] =
                                 Append(@, NewCommit(commit_hash))])

submit_commit(d, tid, agent, commit_hash, t) ==
    LET tournament == d.tournaments[tid]
        alive == SelectSeq(d.entries[tid][agent], LAMBDA e : e.is_alive)
        found == FindRounds(d, tid, tournament.current_round)
    IN
    IF tournament.state # COMMIT THEN Reject(d, 400, "Not in commit phase")
    ELSE IF Len(alive) > 1 THEN Reject(d, 500, "MultipleResultsFound")
    ELSE IF alive = <<>> THEN Reject(d, 403, "Not alive in this tournament")
    ELSE IF tournament.phase_deadline # None /\ t > tournament.phase_deadline
         THEN Reject(d, 400, "Commit phase ended")
    ELSE IF Cardinality(found) # 1 THEN Reject(d, 500, "Round not found")
    ELSE
    LET current_round == CHOOSE r \in found : TRUE
        existing == d.commits[current_round][agent]
    IN IF Len(existing) > 1 THEN Reject(d, 500, "MultipleResultsFound")
       ELSE IF Len(existing) = 1 THEN Reject(d, 409, "Already committed this round")
       ELSE Accept([d EXCEPT !.commits[current_round][agent] =
                                 Append(@, NewCommit(commit_hash))])

\* submit_reveal that makes a hash mismatch terminal: the rejected row is
\* closed (flagged revealed, without bid or salt), so no later reveal succeeds
submit_reveal_mismatch_terminal(d, tid, agent, bid, salt, t) ==
    LET tournament == d.tournaments[tid]
        found == FindRounds(d, tid, tournament.current_round)
    IN
    IF bid < BID_MIN \/ bid > BID_MAX THEN Reject(d, 422, "validation error")
    ELSE IF tournament.state # REVEAL THEN Reject(d, 400, "Not in reveal phase")
    ELSE IF tournament.phase_deadline # None /\ t > tournament.phase_deadline
         THEN Reject(d, 400, "Reveal phase ended")
    ELSE IF Cardinality(found) # 1 THEN Reject(d, 500, "Round not found")
    ELSE
    LET current_round == CHOOSE r \in found : TRUE
        rows == d.commits[current_round][agent]
    IN IF Len(rows) > 1 THEN Reject(d, 500, "MultipleResultsFound")
       ELSE IF rows = <<>> THEN Reject(d, 404, "No commit found for this round")
       ELSE IF rows[1].revealed THEN Reject(d, 409, "Already revealed")
       ELSE IF ~verify_reveal(rows[1].commit_hash, bid, salt)
            THEN Reject([d EXCEPT !.commits[current_round][agent][1].revealed = TRUE],
                        400, "Bid + salt don't match your commit hash")
       ELSE Accept([d EXCEPT !.commits[current_round][agent][1] =
                                 [@ EXCEPT !.bid = bid, !.salt = salt, !.revealed = TRUE]])

\* RevealRequest: bid has ge=1, le=1000 (422 before the handler runs)
\* submit_reveal that stores the pair without comparing it with the hash
submit_reveal_unverified(d, tid, agent, bid, salt, t) ==
    LET tournament == d.tournaments[tid]
        found == FindRounds(d, tid, tournament.current_round)
    IN
    IF bid < BID_MIN \/ bid > BID_MAX THEN Reject(d, 422, "validation error")
    ELSE IF tournament.state # REVEAL THEN Reject(d, 400, "Not in reveal phase")
    ELSE IF tournament.phase_deadline # None /\ t > tournament.phase_deadline
         THEN Reject(d, 400, "Reveal phase ended")
    ELSE IF Cardinality(found) # 1 THEN Reject(d, 500, "Round not found")
    ELSE
    LET current_round == CHOOSE r \in found : TRUE
        rows == d.commits[current_round][agent]
    IN IF Len(rows) > 1 THEN Reject(d, 500, "MultipleResultsFound")
       ELSE IF rows = <<>> THEN Reject(d, 404, "No commit found for this round")
       ELSE IF rows[1].revealed THEN Reject(d, 409, "Already revealed")
       ELSE Accept([d EXCEPT !.commits[current_round][agent][1] =
                                 [@ EXCEPT !.bid = bid, !.salt = salt, !.revealed = TRUE]])

\* submit_reveal gated by the state only, without the deadline comparison
submit_reveal_state_gated(d, tid, agent, bid, salt, t) ==
    LET tournament == d.tournaments[tid]
        found == FindRounds(d, tid, tournament.current_round)
    IN
    IF bid < BID_MIN \/ bid > BID_MAX THEN Reject(d, 422, "validation error")
    ELSE IF tournament.state # REVEAL THEN Reject(d, 400, "Not in reveal phase")
    ELSE IF Cardinality(found) # 1 THEN Reject(d, 500, "Round not found")
    ELSE
    LET current_round == CHOOSE r \in found : TRUE
        rows == d.commits[current_round][agent]
    IN IF Len(rows) > 1 THEN Reject(d, 500, "MultipleResultsFound")
       ELSE IF rows = <<>> THEN Reject(d, 404, "No commit found for this round")
       ELSE IF rows[1].revealed THEN Reject(d, 409, "Already revealed")
       ELSE IF ~verify_reveal(rows[1].commit_hash, bid, salt)
            THEN Reject(d, 400, "Bid + salt don't match your commit hash")
       ELSE Accept([d EXCEPT !.commits[current_round][agent][1] =
                                 [@ EXCEPT !.bid = bid, !.salt = salt, !.revealed = TRUE]])

submit_reveal(d, tid, agent, bid, salt, t) ==
    LET tournament == d.tournaments[tid]
        found == FindRounds(d, tid, tournament.current_round)
    IN
    IF bid < BID_MIN \/ bid > BID_MAX THEN Reject(d, 422, "validation error")
    ELSE IF tournament.state # REVEAL THEN Reject(d, 400, "Not in reveal phase")
    ELSE IF tournament.phase_deadline # None /\ t > tournament.phase_deadline
         THEN Reject(d, 400, "Reveal phase ended")
    ELSE IF Cardinality(found) # 1 THEN Reject(d, 500, "Round not found")
    ELSE
    LET current_round == CHOOSE r \in found : TRUE
        rows == d.commits[current_round][agent]
    IN IF Len(rows) > 1 THEN Reject(d, 500, "MultipleResultsFound")
       ELSE IF rows = <<>> THEN Reject(d, 404, "No commit found for this round")
       ELSE IF rows[1].revealed THEN Reject(d, 409, "Already revealed")
       ELSE IF ~verify_reveal(rows[1].commit_hash, bid, salt)
            THEN Reject(d, 400, "Bid + salt don't match your commit hash")
       ELSE Accept([d EXCEPT !.commits[current_round][agent][1] =
                                 [@ EXCEPT !.bid = bid, !.salt = salt, !.revealed = TRUE]])

(***************************************************************************)
(* Background tournament manager (src/api/main.py)                         *)
(***************************************************************************)
\* the query of process_phase_transitions with `<=` for `<`
Due_inclusive(d, t) ==
    {tid \in TIds :
        /\ d.tournaments[tid].state \in {COMMIT, REVEAL}
        /\ d.tournaments[tid].phase_deadline # None
        /\ d.tournaments[tid].phase_deadline <= t}

\* the query of process_phase_transitions selecting the Reveal state only
Due_reveal_only(d, t) ==
    {tid \in TIds :
        /\ d.tournaments[tid].state = REVEAL
        /\ d.tournaments[tid].phase_deadline # None
        /\ d.tournaments[tid].phase_deadline < t}

\* the tournaments a pass selects
Due(d, t) ==
    {tid \in TIds :
        /\ d.tournaments[tid].state \in {COMMIT, REVEAL}
        /\ d.tournaments[tid].phase_deadline # None
        /\ d.tournaments[tid].phase_deadline < t}

\* the loop body rolling the tournament back when the on-chain call fails
ProcessTournament_rollback(d, tid, t, chain_ok) ==
    LET tournament == d.tournaments[tid]
        found == FindRounds(d, tid, tournament.current_round)
    IN
    IF Cardinality(found) # 1 THEN d
    ELSE
    LET current_round == CHOOSE r \in found : TRUE IN
    IF tournament.state = COMMIT THEN open_reveal_phase(d, current_round, t)
    ELSE IF tournament.state = REVEAL
    THEN LET result == resolve_round(d, current_round, t) IN
         IF result.type = "final"
         THEN LET d1 == finish_tournament(result.db, tid, result.ranking, t)
              IN IF chain_ok THEN [d1 EXCEPT !.tournaments[tid].resolve_tx = tid] ELSE d
         ELSE IF result.type = "no_reveals"
         THEN finish_tournament(result.db, tid, <<>>, t)
         ELSE start_new_round(result.db, tid, Len(result.survivors), t)
    ELSE d

\* the loop body opening the next round without keeping the resolution
ProcessTournament_resolution_lost(d, tid, t, chain_ok) ==
    LET tournament == d.tournaments[tid]
        found == FindRounds(d, tid, tournament.current_round)
    IN
    IF Cardinality(found) # 1 THEN d
    ELSE
    LET current_round == CHOOSE r \in found : TRUE IN
    IF tournament.state = COMMIT THEN open_reveal_phase(d, current_round, t)
    ELSE IF tournament.state = REVEAL
    THEN LET result == resolve_round(d, current_round, t) IN
         IF result.type = "final"
         THEN LET d1 == finish_tournament(result.db, tid, result.ranking, t)
              IN IF chain_ok THEN [d1 EXCEPT !.tournaments[tid].resolve_tx = tid] ELSE d1
         ELSE IF result.type = "no_reveals"
         THEN finish_tournament(result.db, tid, <<>>, t)
         ELSE start_new_round(d, tid, Len(result.survivors), t)
    ELSE d

\* the loop body finishing the tournament at once when an elimination
\* leaves no more than FINALIST_THRESHOLD survivors
ProcessTournament_finish_early(d, tid, t, chain_ok) ==
    LET tournament == d.tournaments[tid]
        found == FindRounds(d, tid, tournament.current_round)
    IN
    IF Cardinality(found) # 1 THEN d
    ELSE
    LET current_round == CHOOSE r \in found : TRUE IN
    IF tournament.state = COMMIT THEN open_reveal_phase(d, current_round, t)
    ELSE IF tournament.state = REVEAL
    THEN LET result == resolve_round(d, current_round, t) IN
         IF result.type = "final"
         THEN LET d1 == finish_tournament(result.db, tid, result.ranking, t)
              IN IF chain_ok THEN [d1 EXCEPT !.tournaments[tid].resolve_tx = tid] ELSE d1
         ELSE IF result.type = "no_reveals"
         THEN finish_tournament(result.db, tid, <<>>, t)
         ELSE IF Len(result.survivors) <= FINALIST_THRESHOLD
         THEN finish_tournament(result.db, tid, result.survivors, t)
         ELSE start_new_round(result.db, tid, Len(result.survivors), t)
    ELSE d

\* the body of the loop of process_phase_transitions for one tournament;
\* chain_ok: whether the on-chain resolve call succeeds
ProcessTournament(d, tid, t, chain_ok) ==
    LET tournament == d.tournaments[tid]
        found == FindRounds(d, tid, tournament.current_round)
    IN
    IF Cardinality(found) # 1 THEN d
    ELSE
    LET current_round == CHOOSE r \in found : TRUE IN
    IF tournament.state = COMMIT THEN open_reveal_phase(d, current_round, t)
    ELSE IF tournament.state = REVEAL
    THEN LET result == resolve_round(d, current_round, t) IN
         IF result.type = "final"
         THEN LET d1 == finish_tournament(result.db, tid, result.ranking, t)
              IN IF chain_ok THEN [d1 EXCEPT !.tournaments[tid].resolve_tx = tid] ELSE d1
         ELSE IF result.type = "no_reveals"
         THEN finish_tournament(result.db, tid, <<>>, t)
         ELSE start_new_round(result.db, tid, Len(result.survivors), t)
    ELSE d

\* the selected tournaments are processed one after the other, by id
RECURSIVE ProcessFrom(_, _, _, _, _)
ProcessFrom(d, due, tid, t, chain) ==
    IF tid > NumTournaments THEN d
    ELSE ProcessFrom(IF tid \in due THEN ProcessTournament(d, tid, t, tid \in chain) ELSE d,
                     due, tid + 1, t, chain)

\* chain: the tournaments whose on-chain resolve call would succeed
process_phase_transitions(d, t, chain) == ProcessFrom(d, Due(d, t), 1, t, chain)

\* cancel_expired_tournaments without the state filter of its query
cancel_expired_any_state(d, t) ==
    LET cutoff == t - CANCEL_DEADLINE
    IN [d EXCEPT !.tournaments =
           [tid \in TIds |->
               IF d.tournaments[tid].created_at < cutoff
               THEN [d.tournaments[tid] EXCEPT !.state = CANCELLED]
               ELSE d.tournaments[tid]]]

cancel_expired_tournaments(d, t) ==
    LET cutoff == t - CANCEL_DEADLINE
    IN [d EXCEPT !.tournaments =
           [tid \in TIds |->
               IF d.tournaments[tid].state = OPEN /\ d.tournaments[tid].created_at < cutoff
               THEN [d.tournaments[tid] EXCEPT !.state = CANCELLED]
               ELSE d.tournaments[tid]]]

(***************************************************************************)
(* The system: requests, manager passes and the clock                      *)
(***************************************************************************)
NoCall == [fn |-> "none"]

\* what the agents of the model submit: one bid and one salt per agent
\* (several agents share a bid, so that exact distance ties occur)
BidOf(a) == 150 * ((a % 3) + 1)
SaltOf(a) == ToHex([i \in 1..SaltBytes |-> (27 * a + i - 1) % 256])
HashOf(a) == compute_commit_hash(BidOf(a), SaltOf(a))

\* reveal requests: the committed pair, a pair with another bid, and a bid
\* outside [BID_MIN, BID_MAX]
RevealBids(a) == {BidOf(a), BidOf(a) + 1, BID_MIN - 1, BID_MAX + 1}

\* salts tried in reveal requests: the committed one, its upper-case
\* spelling, and another agent's
RevealSalts(a) == {SaltOf(a), Upper(SaltOf(a)), SaltOf((a % NumAgents) + 1)}

\* every player may join tournament 1; agents 1..NumOutsiders also join the others
JoinRequests == {<<a, tid>> \in Players \X TIds : tid = 1 \/ a <= NumOutsiders}

Init ==
    /\ tournaments = [tid \in TIds |-> NewTournament(0)]
    /\ entries = [tid \in TIds |-> [a \in Agents |-> <<>>]]
    /\ rounds = <<>>
    /\ commits = [r \in RoundIds |-> [a \in Agents |-> <<>>]]
    /\ now = 0
    /\ call = NoCall
    /\ sessions = <<>>

Store(d) ==
    /\ tournaments' = d.tournaments
    /\ entries' = d.entries
    /\ rounds' = d.rounds
    /\ commits' = d.commits

Join(a, tid, paid) ==
    /\ Store(join_tournament(DB, tid, a, HashOf(a), paid, now).db)
    /\ UNCHANGED <<now, call, sessions>>

Commit(a, tid) ==
    /\ Store(submit_commit(DB, tid, a, HashOf(a), now).db)
    /\ UNCHANGED <<now, call, sessions>>

Reveal(a, tid, bid) ==
    /\ Store(submit_reveal(DB, tid, a, bid, SaltOf(a), now).db)
    /\ UNCHANGED <<now, call, sessions>>

\* one pass of tournament_manager: the phase tick, then the expiry sweep, in
\* one transaction.  ensure_open_tournaments is bounded away: the tournaments
\* of the model are the ones its first pass created.
ManagerPass(chain) ==
    /\ Store(cancel_expired_tournaments(process_phase_transitions(DB, now, chain), now))
    /\ UNCHANGED <<now, call, sessions>>

\* the clock values the model observes
ClockValues ==
    {k * REVEAL_DURATION : k \in 0..MaxShortSteps}
    \cup {CANCEL_DEADLINE + k * REVEAL_DURATION : k \in 0..MaxShortSteps}

AdvanceClock(step) ==
    /\ now + step \in ClockValues
    /\ now' = now + step
    /\ UNCHANGED <<tournaments, entries, rounds, commits, call, sessions>>

Next ==
    \/ \E r \in JoinRequests, paid \in BOOLEAN : Join(r[1], r[2], paid)
    \/ \E a \in Players, tid \in TIds : Commit(a, tid)
    \/ \E a \in Players, tid \in TIds : \E bid \in RevealBids(a) : Reveal(a, tid, bid)
    \/ \E chain \in SUBSET TIds : ManagerPass(chain)
    \/ \E step \in {REVEAL_DURATION, CANCEL_DEADLINE} : AdvanceClock(step)

Spec == Init /\ [][Next]_vars

(***************************************************************************)
(* The system under its scheduling: the manager loop sleeps 10 seconds     *)
(* between passes, far less than a phase lasts, so a pass has run on every *)
(* due tournament before the clock moves by a phase length again.  Used    *)
(* for liveness, with weak fairness of the manager pass and of the clock.  *)
(***************************************************************************)
\* the clock moves in steps of one phase length plus a second
LiveStep == REVEAL_DURATION + 1
LiveClockValues == {k * LiveStep : k \in 0..MaxLiveSteps}

\* phases of a tournament: Reveal, then Commit and Reveal per elimination
\* round; MAX_PLAYERS <= 2 * FINALIST_THRESHOLD allows one elimination round
PhasesToFinish == IF MAX_PLAYERS > FINALIST_THRESHOLD THEN 3 ELSE 1

\* a tournament started by then has the time to run all its phases
LiveHorizon == (MaxLiveSteps - PhasesToFinish) * LiveStep

TimePasses ==
    /\ Due(DB, now) = {}
    /\ now + LiveStep \in LiveClockValues
    /\ now' = now + LiveStep
    /\ UNCHANGED <<tournaments, entries, rounds, commits, call, sessions>>

LivePass == \E chain \in SUBSET TIds : ManagerPass(chain)

LiveNext ==
    \/ \E r \in JoinRequests, paid \in BOOLEAN : Join(r[1], r[2], paid)
    \/ \E a \in Players, tid \in TIds : Commit(a, tid)
    \/ \E a \in Players, tid \in TIds : \E bid \in RevealBids(a) : Reveal(a, tid, bid)
    \/ LivePass
    \/ TimePasses

\* the manager pass is enabled (it changes the database) whenever a tournament
\* is due; its weak fairness is written out with that enabling condition
PassFairness == []<>(Due(DB, now) = {}) \/ []<><<LivePass>>_vars

LiveSpec == Init /\ [][LiveNext]_vars /\ WF_vars(TimePasses) /\ PassFairness

(***************************************************************************)
(* The pure functions of GameEngine, called on inputs drawn at the start   *)
(***************************************************************************)
FnBids == {BID_MIN, 256, 257, BID_MAX}

\* salts: three byte patterns, each spelled in lower and in upper case
FnSalts ==
    LET lower == {ToHex([i \in 1..SaltBytes |-> b]) : b \in {27, 177, 171}}
    IN lower \cup {Upper(x) : x \in lower}

\* a hex string with the lowest bit of its last digit flipped
Tamper(h) ==
    LET n == Nibble(h[Len(h)])
    IN [h EXCEPT ![Len(h)] = HexDigits[(IF n % 2 = 0 THEN n + 1 ELSE n - 1) + 1]]

\* how the hash committed for (bid, salt) can reach verify_reveal: as
\* computed, spelled in upper case, or with one bit changed
HashSpellings(bid, salt) ==
    LET h == compute_commit_hash(bid, salt) IN {h, Upper(h), Tamper(h)}

\* non-empty lists of salts, repetitions included
SaltLists == UNION {[1..n -> FnSalts] : n \in 1..MaxSalts}

SecretCalls ==
    {[fn |-> "compute_secret", salts |-> l, done |-> FALSE] : l \in SaltLists}

\* revealed bids of participants 1..n around a secret of 500: equal bids and
\* bids at equal distance on both sides of the secret occur
FnPlayerBids(n) == [1..n -> {400, 500, 600}]

\* the dict of bids, inserted by ascending or by descending address
AscendingDict(f) == [i \in DOMAIN f |-> <<i, f[i]>>]
DescendingDict(f) == [i \in DOMAIN f |-> <<Len(f) + 1 - i, f[Len(f) + 1 - i]>>]

\* eight participants, secret 500
ScenarioBids ==
    <<(<<1, 400>>), (<<2, 550>>), (<<3, 500>>), (<<4, 100>>),
      (<<5, 900>>), (<<6, 480>>), (<<7, 520>>), (<<8, 999>>)>>

FnBidDicts ==
    {ScenarioBids}
    \cup UNION {{AscendingDict(f) : f \in FnPlayerBids(n)} : n \in 1..MaxFnPlayers}
    \cup UNION {{DescendingDict(f) : f \in FnPlayerBids(n)} : n \in 1..MaxFnPlayers}

EliminationCalls ==
    {[fn |-> name, bids |-> b, secret |-> 500, variant |-> v, done |-> FALSE] :
        name \in {"eliminate", "determine_final_ranking"},
        b \in FnBidDicts, v \in {CLASSIC, INVERSE}}

FnCalls ==
    SecretCalls
    \cup
    EliminationCalls
    \cup
    {[fn |-> "compute_commit_hash", bid |-> b, salt |-> x, done |-> FALSE] :
        b \in FnBids, x \in FnSalts}
    \cup
    {[fn |-> "verify_reveal", commit_hash |-> q[3], bid |-> p[1], salt |-> p[2],
      committed_bid |-> q[1], committed_salt |-> q[2], done |-> FALSE] :
        p \in FnBids \X FnSalts,
        q \in UNION {{<<c[1], c[2], h>> : h \in HashSpellings(c[1], c[2])} :
                        c \in FnBids \X FnSalts}}

FnInit ==
    /\ tournaments = [tid \in TIds |-> NewTournament(0)]
    /\ entries = [tid \in TIds |-> [a \in Agents |-> <<>>]]
    /\ rounds = <<>>
    /\ commits = [r \in RoundIds |-> [a \in Agents |-> <<>>]]
    /\ now = 0
    /\ call \in FnCalls
    /\ sessions = <<>>

CallComputeCommitHash ==
    /\ call.fn = "compute_commit_hash"
    /\ ~call.done
    /\ call' = [fn |-> call.fn, bid |-> call.bid, salt |-> call.salt, done |-> TRUE,
                ret |-> compute_commit_hash(call.bid, call.salt)]
    /\ UNCHANGED <<tournaments, entries, rounds, commits, now, sessions>>

CallVerifyReveal ==
    /\ call.fn = "verify_reveal"
    /\ ~call.done
    /\ call' = [fn |-> call.fn, commit_hash |-> call.commit_hash, bid |-> call.bid,
                salt |-> call.salt, committed_bid |-> call.committed_bid,
                committed_salt |-> call.committed_salt, done |-> TRUE,
                ret |-> verify_reveal(call.commit_hash, call.bid, call.salt)]
    /\ UNCHANGED <<tournaments, entries, rounds, commits, now, sessions>>

CallComputeSecret ==
    /\ call.fn = "compute_secret"
    /\ ~call.done
    /\ call' = [fn |-> call.fn, salts |-> call.salts, done |-> TRUE,
                ret |-> compute_secret(call.salts)]
    /\ UNCHANGED <<tournaments, entries, rounds, commits, now, sessions>>

\* compute_distances, then eliminate on its result
CallEliminate ==
    /\ call.fn = "eliminate"
    /\ ~call.done
    /\ call' = [fn |-> call.fn, bids |-> call.bids, secret |-> call.secret,
                variant |-> call.variant, done |-> TRUE,
                distances |-> compute_distances(call.bids, call.secret),
                ret |-> eliminate(compute_distances(call.bids, call.secret), call.variant)]
    /\ UNCHANGED <<tournaments, entries, rounds, commits, now, sessions>>

\* compute_distances, then determine_final_ranking on its result
CallDetermineFinalRanking ==
    /\ call.fn = "determine_final_ranking"
    /\ ~call.done
    /\ call' = [fn |-> call.fn, bids |-> call.bids, secret |-> call.secret,
                variant |-> call.variant, done |-> TRUE,
                distances |-> compute_distances(call.bids, call.secret),
                ret |-> determine_final_ranking(compute_distances(call.bids, call.secret),
                                                call.variant)]
    /\ UNCHANGED <<tournaments, entries, rounds, commits, now, sessions>>

FnNext ==
    \/ CallComputeCommitHash
    \/ CallVerifyReveal
    \/ CallComputeSecret
    \/ CallEliminate
    \/ CallDetermineFinalRanking

FnSpec == FnInit /\ [][FnNext]_vars

(***************************************************************************)
(* Properties                                                              *)
(***************************************************************************)
Chains == SUBSET TIds

\* the manager pass as a function of the database
ManagerPassOf(d, t, chain) ==
    cancel_expired_tournaments(process_phase_transitions(d, t, chain), t)

\* C1: tick idempotence -- running process_phase_transitions twice in a row
\* at the same clock value gives the same database as running it once,
\* whatever the on-chain calls answer: the second run changes no tournament,
\* round, commitment or entry.
C1_TickIdempotent ==
    \A c1 \in Chains, c2 \in Chains :
        LET once == process_phase_transitions(DB, now, c1)
        IN process_phase_transitions(once, now, c2) = once

\* a Reveal round past its deadline that the tick resolves by elimination
C1_Witness ==
    \E tid \in TIds :
        /\ tournaments[tid].state = REVEAL
        /\ tid \in Due(DB, now)
        /\ LET once == process_phase_transitions(DB, now, {})
           IN /\ once.tournaments[tid].state = COMMIT
              /\ \E a \in Agents : \E i \in DOMAIN once.entries[tid][a] :
                     ~once.entries[tid][a][i].is_alive

\* C3: a tournament enters Cancelled only from Open, only in a manager pass
\* (the expiry sweep) and only when its age exceeds the cancel window; and
\* no tournament re-enters Open, so one that has left Open is never
\* cancelled later.
C3_Step ==
    \A tid \in TIds :
        /\ (tournaments'[tid].state = CANCELLED /\ tournaments[tid].state # CANCELLED)
              => /\ tournaments[tid].state = OPEN
                 /\ tournaments[tid].created_at < now - CANCEL_DEADLINE
                 /\ \E chain \in Chains : DB' = ManagerPassOf(DB, now, chain)
        /\ tournaments'[tid].state = OPEN => tournaments[tid].state = OPEN

C3_CancelOnlyFromOpen == [][C3_Step]_vars

\* one tournament cancelled while another one is running or finished
C3_Witness ==
    \E t1 \in TIds, t2 \in TIds :
        /\ tournaments[t1].state = CANCELLED
        /\ tournaments[t2].state \in {COMMIT, REVEAL, FINISHED}

\* C4: Finished and Cancelled are absorbing -- no step changes the state,
\* the current round number, the winner or the final ranks of a tournament
\* that is Finished or Cancelled.
FinalRanks(te) == [a \in Agents |-> [i \in DOMAIN te[a] |-> te[a][i].final_rank]]

C4_Step ==
    \A tid \in TIds :
        tournaments[tid].state \in {FINISHED, CANCELLED}
        => /\ tournaments'[tid].state = tournaments[tid].state
           /\ tournaments'[tid].current_round = tournaments[tid].current_round
           /\ tournaments'[tid].winner_address = tournaments[tid].winner_address
           /\ FinalRanks(entries'[tid]) = FinalRanks(entries[tid])

C4_TerminalAbsorbing == [][C4_Step]_vars

\* a finished tournament with a winner and a cancelled one, some time later
C4_Witness ==
    \E t1 \in TIds, t2 \in TIds :
        /\ tournaments[t1].state = FINISHED
        /\ tournaments[t1].winner_address # None
        /\ tournaments[t1].finished_at < now
        /\ tournaments[t2].state = CANCELLED
        /\ tournaments[t2].player_count > 0

\* C5 (as amended): a phase opened at time t0 has deadline t0 + D (D the
\* duration of the phase) and keeps it while the phase lasts; a tick at any
\* time up to and including t0 + D leaves the tournament unchanged, and a
\* tick at a time strictly later than t0 + D performs the phase transition,
\* exactly once (a second tick at that time changes nothing).
InPhase(tid) == tournaments[tid].state \in {COMMIT, REVEAL}

PhaseDuration(state) == IF state = COMMIT THEN COMMIT_DURATION ELSE REVEAL_DURATION

C5_TickAt(tid, before) ==
    \A chain \in Chains :
        LET after == process_phase_transitions(DB, now, chain) IN
        IF before
        THEN /\ after.tournaments[tid] = tournaments[tid]
             /\ after.entries[tid] = entries[tid]
        ELSE /\ after.tournaments[tid].state # tournaments[tid].state
             /\ after.tournaments[tid].state \in {COMMIT, REVEAL, FINISHED}
             /\ process_phase_transitions(after, now, chain) = after

C5_Inv ==
    \A tid \in TIds :
        InPhase(tid) => C5_TickAt(tid, now <= tournaments[tid].phase_deadline)

C5_Step ==
    \A tid \in TIds :
        LET old == tournaments[tid]
            new == tournaments'[tid]
        IN IF new.state \in {COMMIT, REVEAL}
              /\ (new.state # old.state \/ new.current_round # old.current_round)
           THEN new.phase_deadline = now + PhaseDuration(new.state)
           ELSE new.state \in {COMMIT, REVEAL} => new.phase_deadline = old.phase_deadline

C5_DeadlineMath == []C5_Inv /\ [][C5_Step]_vars

\* C5 as first stated: a tick at time t0 + D or later performs the transition
C5_Original ==
    \A tid \in TIds :
        InPhase(tid) => C5_TickAt(tid, now < tournaments[tid].phase_deadline)

\* a Commit phase and a Reveal phase observed exactly at their deadline
C5_Witness ==
    \E tid \in TIds :
        /\ tournaments[tid].state = REVEAL
        /\ tournaments[tid].current_round = 2
        /\ now = tournaments[tid].phase_deadline

\* C6: at most one commitment per (round, participant) -- no round has two
\* commitment rows of the same participant.
C6_OneCommitPerRoundAndAgent ==
    \A r \in DOMAIN rounds : \A a \in Agents : Len(commits[r][a]) <= 1

\* the rows of every commitment key other than (rid, a) are the same in d1 and d2
SameCommitsExcept(d1, d2, rid, a) ==
    \A r \in RoundIds : \A b \in Agents :
        <<r, b>> # <<rid, a>> => d1.commits[r][b] = d2.commits[r][b]

\* C7: a commit is accepted only if the tournament is in Commit, the
\* participant is marked alive in it and has no commitment yet in the current
\* round; an accepted commit adds exactly one commitment (to the current
\* round, for that participant) and changes nothing else; a rejected commit
\* changes nothing.
C7_CommitContract ==
    \A tid \in TIds : \A a \in Agents :
        LET r == submit_commit(DB, tid, a, HashOf(a), now)
            cur == FindRounds(DB, tid, tournaments[tid].current_round)
        IN IF r.status = 200
           THEN /\ tournaments[tid].state = COMMIT
                /\ \E i \in DOMAIN entries[tid][a] : entries[tid][a][i].is_alive
                /\ \E rid \in cur :
                       /\ cur = {rid}
                       /\ commits[rid][a] = <<>>
                       /\ r.db.commits[rid][a] = <<NewCommit(HashOf(a))>>
                       /\ SameCommitsExcept(r.db, DB, rid, a)
                /\ r.db.tournaments = tournaments
                /\ r.db.entries = entries
                /\ r.db.rounds = rounds
           ELSE r.db = DB

\* a Commit phase in which one participant has committed, another one can,
\* and an eliminated one is turned away
C7_Witness ==
    \E tid \in TIds : \E a \in Agents, b \in Agents, c \in Agents :
        /\ tournaments[tid].state = COMMIT
        /\ submit_commit(DB, tid, a, HashOf(a), now).status = 409
        /\ submit_commit(DB, tid, b, HashOf(b), now).status = 200
        /\ submit_commit(DB, tid, c, HashOf(c), now).status = 403

\* C8: a reveal is accepted only if the tournament is in Reveal, the
\* participant has a commitment in the current round that is not yet
\* revealed, the bid is within [BID_MIN, BID_MAX] and the (bid, salt) pair
\* reproduces the stored hash; an accepted reveal stores bid, salt and
\* revealed = true in exactly that commitment and changes nothing else; a
\* rejected reveal changes nothing.
C8_RevealContract ==
    \A tid \in TIds : \A a \in Agents : \A bid \in RevealBids(a), salt \in RevealSalts(a) :
        LET r == submit_reveal(DB, tid, a, bid, salt, now)
            cur == FindRounds(DB, tid, tournaments[tid].current_round)
        IN IF r.status = 200
           THEN /\ tournaments[tid].state = REVEAL
                /\ bid >= BID_MIN /\ bid <= BID_MAX
                /\ \E rid \in cur :
                       /\ cur = {rid}
                       /\ Len(commits[rid][a]) = 1
                       /\ ~commits[rid][a][1].revealed
                       /\ compute_commit_hash(bid, salt) = Lower(commits[rid][a][1].commit_hash)
                       /\ r.db.commits[rid][a] =
                              <<[commits[rid][a][1] EXCEPT
                                    !.bid = bid, !.salt = salt, !.revealed = TRUE]>>
                       /\ SameCommitsExcept(r.db, DB, rid, a)
                /\ r.db.tournaments = tournaments
                /\ r.db.entries = entries
                /\ r.db.rounds = rounds
           ELSE r.db = DB

\* a Reveal phase in which one participant has revealed and another one can
\* reveal with the committed pair but not with another bid
C8_Witness ==
    \E tid \in TIds : \E a \in Agents, b \in Agents :
        /\ tournaments[tid].state = REVEAL
        /\ submit_reveal(DB, tid, a, BidOf(a), SaltOf(a), now).status = 409
        /\ submit_reveal(DB, tid, b, BidOf(b), SaltOf(b), now).status = 200
        /\ submit_reveal(DB, tid, b, BidOf(b) + 1, SaltOf(b), now).status = 400

\* C9 (as amended): a hash mismatch rejects that request only -- it changes
\* no record, and a later reveal by the same participant in the same round
\* is accepted exactly when its bid is in range and its pair reproduces the
\* stored hash; a commitment still unrevealed when its round is resolved is
\* counted as a non-revealer (listed as such, flagged eliminated, given no
\* distance).
Mismatch(r) == r.status = 400 /\ r.detail = "Bid + salt don't match your commit hash"

\* the reveals (bid, salt) of participant a after its mismatching reveal:
\* the set of <<r1, r2, bid2, salt2>> with r1 the rejected request's outcome
\* and r2 the outcome of the later request
C9_Retries(tid, a) ==
    {<<r1, submit_reveal(r1.db, tid, a, p[1], p[2], now), p[1], p[2]>> :
        r1 \in {r \in {submit_reveal(DB, tid, a, q[1], q[2], now) :
                          q \in RevealBids(a) \X RevealSalts(a)} : Mismatch(r)},
        p \in RevealBids(a) \X RevealSalts(a)}

C9_NonRevealers ==
    \A tid \in TIds :
        tournaments[tid].state = REVEAL =>
            \A rid \in FindRounds(DB, tid, tournaments[tid].current_round) :
                LET res == resolve_round(DB, rid, now) IN
                \A a \in Agents : \A i \in DOMAIN commits[rid][a] :
                    ~commits[rid][a][i].revealed
                    => /\ a \in SeqToSet(res.non_revealers)
                       /\ res.db.commits[rid][a][i].eliminated
                       /\ res.db.commits[rid][a][i].distance = None

Started(tid) ==
    /\ tournaments[tid].state \notin {OPEN, CANCELLED}
    /\ tournaments[tid].started_at <= LiveHorizon

C2_EventuallyFinished ==
    \A tid \in TIds : Started(tid) ~> (tournaments[tid].state = FINISHED)

\* a tournament that finished in round 2 although nobody committed in it
C2_Witness ==
    \E tid \in TIds :
        /\ tournaments[tid].state = FINISHED
        /\ tournaments[tid].current_round = 2
        /\ tournaments[tid].started_at <= LiveHorizon
        /\ \A rid \in FindRounds(DB, tid, 2) : \A a \in Agents : commits[rid][a] = <<>>

\* C10 (as amended): verify_reveal(compute_commit_hash(bid, salt), bid, salt)
\* is true, and verify_reveal of a hash, a bid and a salt is true exactly
\* when the bid is the committed one, the salt denotes the committed bytes
\* (hex digits of either case) and the hash is the committed hash up to the
\* case of its hex digits.
VerifyDone == call.fn = "verify_reveal" /\ call.done

C10_RoundTrip ==
    VerifyDone =>
        (call.ret <=>
            /\ call.bid = call.committed_bid
            /\ FromHex(call.salt) = FromHex(call.committed_salt)
            /\ Lower(call.commit_hash)
                  = compute_commit_hash(call.committed_bid, call.committed_salt))

\* C10 as first stated: false whenever the bid, the salt or the hash differs
C10_Original ==
    VerifyDone =>
        (call.ret <=>
            /\ call.bid = call.committed_bid
            /\ call.salt = call.committed_salt
            /\ call.commit_hash
                  = compute_commit_hash(call.committed_bid, call.committed_salt))

\* an accepted reveal whose salt is spelled differently from the committed one
C10_Witness ==
    /\ VerifyDone
    /\ call.ret
    /\ call.salt # call.committed_salt
    /\ call.commit_hash = compute_commit_hash(call.bid, call.salt)

\* the permutations of 1..n
Perms(n) == {f \in [1..n -> 1..n] : \A i, j \in 1..n : f[i] = f[j] => i = j}

\* C11: compute_secret returns the same value for every permutation of the
\* same non-empty list of salts, and its result is within [1, 1000].
C11_SecretPermutationInvariant ==
    (call.fn = "compute_secret" /\ call.done) =>
        /\ call.ret \in BID_MIN..BID_MAX
        /\ \A f \in Perms(Len(call.salts)) :
              compute_secret([i \in 1..Len(call.salts) |-> call.salts[f[i]]]) = call.ret

\* a secret computed from a list of distinct salts given out of sorted order
C11_Witness ==
    /\ call.fn = "compute_secret"
    /\ call.done
    /\ Len(call.salts) = MaxSalts
    /\ call.salts # SortedStrs(call.salts)
    /\ \A i, j \in DOMAIN call.salts : i # j => call.salts[i] # call.salts[j]

EliminateDone == call.fn = "eliminate" /\ call.done
RankingDone == call.fn = "determine_final_ranking" /\ call.done

\* ceil(n / 2), as the least k with 2k >= n
CeilHalf(n) == CHOOSE k \in 0..n : 2 * k >= n /\ \A m \in 0..n : 2 * m >= n => k <= m

\* no address occurs twice in the sequence
NoRepeat(s) == \A i, j \in DOMAIN s : s[i] = s[j] => i = j

\* C12: eliminate on n participants returns ceil(n/2) survivors and
\* n - ceil(n/2) eliminated when n > 5, and all n participants as survivors
\* with nobody eliminated when n <= 5, under both variants.
C12_EliminateCounts ==
    EliminateDone =>
        LET n == Len(call.bids)
            survivors == call.ret.survivors
            eliminated == call.ret.eliminated
        IN /\ NoRepeat(survivors \o eliminated)
           /\ SeqToSet(survivors \o eliminated) = KeySet(call.bids)
           /\ n > FINALIST_THRESHOLD =>
                 /\ Len(survivors) = CeilHalf(n)
                 /\ Len(eliminated) = n - CeilHalf(n)
           /\ n <= FINALIST_THRESHOLD =>
                 /\ Len(survivors) = n
                 /\ eliminated = <<>>

\* an odd number of participants above five, split under the farthest-wins
\* variant
C12_Witness ==
    /\ EliminateDone
    /\ call.variant = INVERSE
    /\ Len(call.bids) = 7
    /\ Len(call.ret.survivors) = 4
    /\ Len(call.ret.eliminated) = 3

\* |bid - secret| of participant a in the call
DistanceOf(a) == Abs(Get(call.bids, a) - call.secret)

\* (distance, id) of a before (distance, id) of b
Closer(a, b) ==
    DistanceOf(a) < DistanceOf(b) \/ (DistanceOf(a) = DistanceOf(b) /\ a < b)

\* C13: closest-wins with n > 5 -- the distance is |bid - secret| and the
\* survivors of eliminate are exactly the first ceil(n/2) participants in
\* ascending (distance, participant) order: survivors and eliminated
\* partition the input and every survivor precedes every eliminated one; the
\* scenario of eight participants with secret 500 yields p3, p6, p7, p2.
C13_ClosestSurvive ==
    (EliminateDone /\ call.variant = CLASSIC /\ Len(call.bids) > FINALIST_THRESHOLD) =>
        LET survivors == call.ret.survivors
            eliminated == call.ret.eliminated
        IN /\ \A a \in KeySet(call.bids) : Get(call.distances, a) = DistanceOf(a)
           /\ Len(survivors) = CeilHalf(Len(call.bids))
           /\ NoRepeat(survivors \o eliminated)
           /\ SeqToSet(survivors \o eliminated) = KeySet(call.bids)
           /\ \A i \in DOMAIN survivors : \A j \in DOMAIN eliminated :
                 Closer(survivors[i], eliminated[j])
           /\ \A i, j \in DOMAIN survivors : i < j => Closer(survivors[i], survivors[j])
           /\ call.bids = ScenarioBids => survivors = <<3, 6, 7, 2>>

\* the scenario of eight participants, resolved
C13_Witness ==
    /\ EliminateDone
    /\ call.variant = CLASSIC
    /\ call.bids = ScenarioBids
    /\ call.ret.survivors = <<3, 6, 7, 2>>
    /\ SeqToSet(call.ret.eliminated) = {1, 4, 5, 8}

\* the comparator of the variant on the participants of the call: by
\* ascending distance (closest-wins) or descending distance (farthest-wins),
\* participants at equal distance by ascending address
Before(a, b) ==
    \/ call.variant = CLASSIC /\ DistanceOf(a) < DistanceOf(b)
    \/ call.variant = INVERSE /\ DistanceOf(a) > DistanceOf(b)
    \/ DistanceOf(a) = DistanceOf(b) /\ a < b

\* the sequence lists every participant of the call once, in comparator order
InComparatorOrder(s) ==
    /\ NoRepeat(s)
    /\ SeqToSet(s) = KeySet(call.bids)
    /\ \A i, j \in DOMAIN s : i < j => Before(s[i], s[j])

\* the dict with its items inserted in the opposite order
Reversed(dict) == [i \in DOMAIN dict |-> dict[Len(dict) + 1 - i]]

Revealing(tid, rid) ==
    /\ tournaments[tid].state = REVEAL
    /\ FindRounds(DB, tid, tournaments[tid].current_round) = {rid}

\* no commitment of the round has a valid reveal
ValidReveal(c) == c.revealed /\ c.bid \in BID_MIN..BID_MAX /\ c.salt # <<>>

NoValidReveal(rid) ==
    \A a \in Agents : \A i \in DOMAIN commits[rid][a] : ~ValidReveal(commits[rid][a][i])

\* the agents with a commitment in the round
Committers(rid) == {a \in Agents : commits[rid][a] # <<>>}

\* no winner, no finalists and no final rank in tournament tid of database d
NoResult(d, tid) ==
    /\ d.tournaments[tid].winner_address = None
    /\ d.tournaments[tid].finalist_addresses = <<>>
    /\ \A a \in Agents : \A i \in DOMAIN d.entries[tid][a] :
          d.entries[tid][a][i].final_rank = None

\* C15 (as amended): resolving a round in which no commitment has a valid
\* reveal gives the void result "no_reveals": its survivor list is empty and
\* its eliminated list holds exactly the participants that committed in the
\* round (the non-revealers); the tick then finishes the tournament with no
\* winner and no final ranks.
C15_VoidRound ==
    \A tid \in TIds : \A rid \in DOMAIN rounds :
        (Revealing(tid, rid) /\ NoValidReveal(rid)) =>
            LET result == resolve_round(DB, rid, now)
                after == ProcessTournament(DB, tid, now, TRUE)
            IN /\ result.type = "no_reveals"
               /\ result.survivors = <<>>
               /\ SeqToSet(result.eliminated) = Committers(rid)
               /\ after.tournaments[tid].state = FINISHED
               /\ NoResult(after, tid)

\* C15 as first stated: the eliminated set of the void result is empty too
C15_Original ==
    \A tid \in TIds : \A rid \in DOMAIN rounds :
        (Revealing(tid, rid) /\ NoValidReveal(rid)) =>
            LET result == resolve_round(DB, rid, now)
                after == ProcessTournament(DB, tid, now, TRUE)
            IN /\ result.type = "no_reveals"
               /\ result.survivors = <<>>
               /\ result.eliminated = <<>>
               /\ after.tournaments[tid].state = FINISHED
               /\ NoResult(after, tid)

\* a tournament finished by a void round in which participants had committed
C15_Witness ==
    \E tid \in TIds : \E rid \in DOMAIN rounds :
        /\ tournaments[tid].state = FINISHED
        /\ FindRounds(DB, tid, tournaments[tid].current_round) = {rid}
        /\ rounds[rid].resolved_at # None
        /\ NoValidReveal(rid)
        /\ Committers(rid) # {}
        /\ NoResult(DB, tid)

\* C16: a round resolved with zero reveals has no secret -- in every reachable
\* state the stored secret of a round is either unset or within [1, 1000].
C16_SecretUnsetOrInRange ==
    \A rid \in DOMAIN rounds :
        rounds[rid].secret_number = None \/ rounds[rid].secret_number \in BID_MIN..BID_MAX

\* agent a has a valid reveal in round rid
HasValidReveal(rid, a) ==
    \E i \in DOMAIN commits[rid][a] : ValidReveal(commits[rid][a][i])

\* C17: non-revealers are always treated as eliminated -- once a round is
\* resolved (by elimination, final ranking or void outcome), every
\* participant of the tournament without a valid reveal in that round,
\* whether it committed or not, is marked not alive.
C17_NonRevealersNotAlive ==
    \A rid \in DOMAIN rounds :
        rounds[rid].resolved_at # None =>
            \A a \in Agents :
                ~HasValidReveal(rid, a) =>
                    \A i \in DOMAIN entries[rounds[rid].tournament_id][a] :
                        ~entries[rounds[rid].tournament_id][a][i].is_alive

\* the participants of tournament tid holding a final rank
Ranked(tid) ==
    {a \in Agents : \E i \in DOMAIN entries[tid][a] : entries[tid][a][i].final_rank # None}

\* the final rank of a ranked participant
RankOf(tid, a) ==
    entries[tid][a][CHOOSE i \in DOMAIN entries[tid][a] :
                        entries[tid][a][i].final_rank # None].final_rank

C18_Inv ==
    \A tid \in TIds :
        /\ tournaments[tid].state # FINISHED => Ranked(tid) = {}
        /\ tournaments[tid].state = FINISHED =>
              \E rid \in DOMAIN rounds :
                 /\ FindRounds(DB, tid, tournaments[tid].current_round) = {rid}
                 /\ Ranked(tid) = {a \in Agents : HasValidReveal(rid, a)}
                 /\ Cardinality(Ranked(tid)) <= FINALIST_THRESHOLD
                 /\ {RankOf(tid, a) : a \in Ranked(tid)} = 1..Cardinality(Ranked(tid))
                 /\ \A a \in Ranked(tid) :
                       /\ Len(entries[tid][a]) = 1
                       /\ entries[tid][a][1].is_alive
                       /\ RankOf(tid, a) = 1 <=> tournaments[tid].winner_address = a
                 /\ Ranked(tid) = {} => tournaments[tid].winner_address = None

\* the final ranks each agent holds in the entries te of a tournament
RanksHeld(te) ==
    [a \in Agents |-> {te[a][i].final_rank : i \in DOMAIN te[a]} \ {None}]

C18_Step ==
    \A tid \in TIds :
        RanksHeld(entries'[tid]) # RanksHeld(entries[tid])
        => /\ tournaments[tid].state # FINISHED
           /\ tournaments'[tid].state = FINISHED

\* C18: final ranks are assigned only in the step that finishes the
\* tournament; the ranked participants are exactly those with a valid reveal
\* in the final round, their ranks are 1..k with k <= 5 and pairwise
\* distinct, rank 1 is the stored winner, and nobody marked not alive or
\* without a reveal holds a rank.
C18_FinalRanks == []C18_Inv /\ [][C18_Step]_vars

\* a finished tournament with several ranked participants and an unranked one
C18_Witness ==
    \E tid \in TIds :
        /\ tournaments[tid].state = FINISHED
        /\ Cardinality(Ranked(tid)) > 2
        /\ \E a \in Agents : entries[tid][a] # <<>> /\ a \notin Ranked(tid)
        /\ tournaments[tid].winner_address \in Ranked(tid)

\* C19: settlement failure is never fatal -- when the on-chain resolve call
\* fails in the pass that resolves a tournament's final round, the pass
\* leaves the tournament Finished with its winner, finalists and final ranks
\* recorded, exactly as when the call succeeds except for the settlement
\* reference, and the pass is not rolled back.
C19_SettlementFailureNotFatal ==
    \A tid \in Due(DB, now) :
        LET settled == ManagerPassOf(DB, now, TIds)
            failed == ManagerPassOf(DB, now, TIds \ {tid})
        IN settled.tournaments[tid].resolve_tx # None =>
              /\ failed.tournaments[tid].state = FINISHED
              /\ failed.tournaments[tid].winner_address # None
              /\ failed.tournaments[tid]
                    = [settled.tournaments[tid] EXCEPT !.resolve_tx = None]
              /\ failed.entries = settled.entries
              /\ failed.rounds = settled.rounds
              /\ failed.commits = settled.commits
              /\ \E a \in Agents : \E i \in DOMAIN failed.entries[tid][a] :
                    /\ failed.entries[tid][a][i].final_rank = 1
                    /\ failed.tournaments[tid].winner_address = a

\* a tournament finished with winner and ranks while its settlement failed,
\* observed at a later time
C19_Witness ==
    \E tid \in TIds :
        /\ tournaments[tid].state = FINISHED
        /\ tournaments[tid].winner_address # None
        /\ tournaments[tid].resolve_tx = None
        /\ tournaments[tid].finished_at < now
        /\ Cardinality(Ranked(tid)) > 1
        /\ Len(tournaments[tid].finalist_addresses) = Cardinality(Ranked(tid)) - 1

\* tournament tid finished with a winner while its settlement call failed
Unsettled(tid) ==
    /\ tournaments[tid].state = FINISHED
    /\ tournaments[tid].winner_address # None
    /\ tournaments[tid].resolve_tx = None

\* C20: a settlement call that failed when the tournament finished is retried
\* on a later tick -- under continued ticking, with the settlement call
\* succeeding whenever it is issued again, the settlement reference
\* (resolve_tx) of the tournament is eventually recorded.
C20_SettlementRetried ==
    \A tid \in TIds : Unsettled(tid) ~> (tournaments[tid].resolve_tx # None)

\* what the code does instead: no step and no manager pass, whatever the
\* on-chain calls answer, ever records the settlement of an unsettled
\* tournament
C20_NeverRetriedStep ==
    \A tid \in TIds :
        Unsettled(tid) =>
            /\ Unsettled(tid)'
            /\ \A chain \in Chains :
                  ManagerPassOf(DB, now, chain).tournaments[tid].resolve_tx = None

C20_NeverRetried == [][C20_NeverRetriedStep]_vars

(***************************************************************************)
(* The results query (src/api/main.py, get_tournament_results)             *)
(***************************************************************************)
\* select(Round).where(tournament_id == tid).order_by(round_number): the ids
\* of the rounds numbered n and above
RECURSIVE OrderedRounds(_, _, _)
OrderedRounds(d, tid, n) ==
    IF n > Len(d.rounds) THEN <<>>
    ELSE SelectSeq([i \in 1..Len(d.rounds) |-> i],
                   LAMBDA r : d.rounds[r].tournament_id = tid /\ d.rounds[r].round_number = n)
         \o OrderedRounds(d, tid, n + 1)

\* select(RoundCommit).where(round_id == r.id): the rows with their agent_address
RECURSIVE CommitRows(_, _)
CommitRows(rc, a) ==
    IF a > NumAgents THEN <<>>
    ELSE [i \in DOMAIN rc[a] |-> [agent |-> a, row |-> rc[a][i]]] \o CommitRows(rc, a + 1)

\* round_data of the response
RoundData(d, tid, show_bids) ==
    LET ids == OrderedRounds(d, tid, 0)
    IN [k \in DOMAIN ids |->
           LET r == d.rounds[ids[k]]
               cs == CommitRows(d.commits[ids[k]], 1)
           IN [round_number |-> r.round_number,
               secret_number |-> IF show_bids THEN r.secret_number ELSE None,
               players_start |-> r.players_start, players_end |-> r.players_end,
               bids |-> [j \in DOMAIN cs |->
                           [agent |-> cs[j].agent,
                            bid |-> IF show_bids THEN cs[j].row.bid ELSE None,
                            distance |-> IF show_bids THEN cs[j].row.distance ELSE None,
                            eliminated |-> cs[j].row.eliminated,
                            revealed |-> cs[j].row.revealed]]]]

\* get_tournament_results with show_bids set in every state
get_tournament_results_show_always(d, tid) == RoundData(d, tid, TRUE)

get_tournament_results(d, tid) ==
    RoundData(d, tid, d.tournaments[tid].state = FINISHED)

(***************************************************************************)
(* C21: the results query discloses a round's secret and the bids and      *)
(* distances of its commitments only when the tournament is Finished: in   *)
(* every other state the response lists every round of the tournament with *)
(* those three fields empty, resolved rounds included; in the Finished     *)
(* state it returns the stored values.                                     *)
(***************************************************************************)
C21_ResultsHiddenUntilFinished ==
    \A tid \in TIds :
        LET res == get_tournament_results(DB, tid)
            ids == OrderedRounds(DB, tid, 0)
        IN /\ Len(res) = Cardinality({r \in DOMAIN rounds : rounds[r].tournament_id = tid})
           /\ \A k \in DOMAIN res :
                  /\ Len(res[k].bids) = Len(CommitRows(commits[ids[k]], 1))
                  /\ IF tournaments[tid].state = FINISHED
                     THEN /\ res[k].secret_number = rounds[ids[k]].secret_number
                          /\ \A j \in DOMAIN res[k].bids :
                                 LET c == CommitRows(commits[ids[k]], 1)[j].row
                                 IN res[k].bids[j].bid = c.bid
                                    /\ res[k].bids[j].distance = c.distance
                     ELSE /\ res[k].secret_number = None
                          /\ \A j \in DOMAIN res[k].bids :
                                 res[k].bids[j].bid = None /\ res[k].bids[j].distance = None

\* an unfinished tournament with a resolved round, whose secret, bids and
\* distances are stored and absent from the response
C21_Witness ==
    \E tid \in TIds :
        /\ tournaments[tid].state \in {COMMIT, REVEAL}
        /\ \E r \in DOMAIN rounds :
              /\ rounds[r].tournament_id = tid
              /\ rounds[r].secret_number \notin {None, 0}
              /\ \E a \in Agents : \E i \in DOMAIN commits[r][a] :
                     commits[r][a][i].bid # None /\ commits[r][a][i].distance # None
              /\ \E k \in DOMAIN get_tournament_results(DB, tid) :
                     LET rd == get_tournament_results(DB, tid)[k]
                     IN /\ rd.round_number = rounds[r].round_number
                        /\ rd.secret_number = None
                        /\ \A j \in DOMAIN rd.bids : rd.bids[j].bid = None

(***************************************************************************)
(* C22: tournaments are independent: an operation on one tournament (join, *)
(* commit, reveal, the tick's processing of it with start, resolution and  *)
(* finish, cancel) leaves every other tournament as it was: its row, its   *)
(* entries, its rounds with their commitments, and the commitments its     *)
(* registered participants submitted when joining it, which wait for its   *)
(* start; also when the same participant is registered in both.            *)
(***************************************************************************)
\* what belongs to tournament tid in database d.  `waiting`: the registered
\* participants of the still open tournament that have a join commitment
\* stored (round_id 0), to become their Round 1 commitment
TournamentView(d, tid) ==
    [tournament |-> d.tournaments[tid],
     entries    |-> d.entries[tid],
     rounds     |-> {<<r, d.rounds[r], d.commits[r]>> :
                        r \in {x \in DOMAIN d.rounds : d.rounds[x].tournament_id = tid}},
     waiting    |-> {a \in Agents : /\ d.tournaments[tid].state = OPEN
                                    /\ d.entries[tid][a] # <<>>
                                    /\ d.commits[0][a] # <<>>}]

\* the databases the operations on tournament tid can leave behind, from the
\* current state
OperationsOn(tid) ==
    {join_tournament(DB, tid, a, HashOf(a), paid, now).db : a \in Agents, paid \in BOOLEAN}
    \cup {submit_commit(DB, tid, a, HashOf(a), now).db : a \in Agents}
    \cup UNION {{submit_reveal(DB, tid, a, bid, SaltOf(a), now).db : bid \in RevealBids(a)} :
                   a \in Agents}
    \cup (IF tid \in Due(DB, now)
          THEN {ProcessTournament(DB, tid, now, ok) : ok \in BOOLEAN} ELSE {})
    \cup {[DB EXCEPT !.tournaments[tid] =
                         cancel_expired_tournaments(DB, now).tournaments[tid]]}

C22_TournamentsIndependent ==
    \A tid \in TIds : \A other \in TIds \ {tid} : \A d \in OperationsOn(tid) :
        TournamentView(d, other) = TournamentView(DB, other)

(***************************************************************************)
(* C23: registration is the implicit Round 1 commit: once a tournament has *)
(* started, every registered participant has exactly one commitment in its *)
(* Round 1, carrying the hash submitted when joining, and so can reveal in *)
(* Round 1: while the first Reveal phase is open, a reveal of the          *)
(* committed value and nonce by a participant that has not revealed yet is *)
(* accepted.                                                               *)
(***************************************************************************)
C23_JoinCommitIsRoundOneCommit ==
    \A tid \in TIds : \A r \in FindRounds(DB, tid, 1) : \A a \in Agents :
        entries[tid][a] # <<>> =>
            /\ Len(commits[r][a]) = 1
            /\ commits[r][a][1].commit_hash = HashOf(a)
            /\ (/\ tournaments[tid].state = REVEAL
                /\ tournaments[tid].current_round = 1
                /\ now <= tournaments[tid].phase_deadline
                /\ ~commits[r][a][1].revealed)
               => submit_reveal(DB, tid, a, BidOf(a), SaltOf(a), now).status = 200

(***************************************************************************)
(* Executions in flight.  Request handlers are coroutines of one event     *)
(* loop, each with its own database session (get_db), and every server     *)
(* process runs its own tournament_manager task with its own session; no   *)
(* statement takes a lock (no SELECT ... FOR UPDATE, no version column).   *)
(* A session loads the Tournament row with its first statement and keeps   *)
(* that object in its identity map: every later db.get(Tournament, id)     *)
(* returns it without a query, while the later SELECTs of the execution    *)
(* see what other sessions have committed meanwhile.  On commit the        *)
(* session inserts its new rows and updates the columns it has changed.    *)
(* An execution is therefore split in two steps: Begin loads the           *)
(* Tournament row(s) (join_tournament also looks for the agent's entry,    *)
(* submit_reveal also compares the clock with the deadline), Finish runs   *)
(* the rest of the handler on the current database with the loaded rows    *)
(* in place of the current ones, and commits.                              *)
(***************************************************************************)
\* the tournament the overlapping requests address
RaceTournament == 1

\* the clock of RaceSpec: the phase boundaries and the second after each
RaceClockValues == {k * REVEAL_DURATION + e : k \in 0..MaxRaceSteps, e \in {0, 1}}

\* the database as a session sees it: the loaded Tournament rows in place
\* of the current ones
WithLoaded(d, rows) ==
    [d EXCEPT !.tournaments =
        [tid \in TIds |-> IF tid \in DOMAIN rows THEN rows[tid] ELSE d.tournaments[tid]]]

\* UPDATE tournaments SET <the columns the session changed> WHERE id = tid,
\* applied to the current rows
FlushTournaments(d, rows, res) ==
    [tid \in TIds |->
        IF tid \in DOMAIN rows
        THEN [f \in DOMAIN d.tournaments[tid] |->
                 IF res.tournaments[tid][f] # rows[tid][f] THEN res.tournaments[tid][f]
                 ELSE d.tournaments[tid][f]]
        ELSE d.tournaments[tid]]

Session(op, tid, agent, rows) ==
    [op |-> op, tid |-> tid, agent |-> agent, rows |-> rows, t |-> now]

Without(s, i) == [j \in 1..(Len(s) - 1) |-> IF j < i THEN s[j] ELSE s[j + 1]]

InFlight(op, a) == \E i \in DOMAIN sessions : sessions[i].op = op /\ sessions[i].agent = a

\* the handlers treat all agents alike, so requests are explored in one
\* order of arrival: an agent's request follows those of the agents before it
JoinArrived(a, tid) == entries[tid][a] # <<>> \/ InFlight("join", a)

RevealArrived(a, tid) ==
    \/ InFlight("reveal", a)
    \/ \E r \in FindRounds(DB, tid, tournaments[tid].current_round) :
           \E i \in DOMAIN commits[r][a] : commits[r][a][i].revealed

\* join_tournament up to the end of its checks, main.py 255-270.  Joins
\* overlap on a tournament that is one seat short of capacity
BeginJoin(a, tid) ==
    /\ Len(sessions) < MaxInFlight
    /\ \A b \in 1..(a - 1) : JoinArrived(b, tid)
    /\ sessions # <<>> => tournaments[tid].player_count = MAX_PLAYERS - 1
    /\ join_tournament(DB, tid, a, HashOf(a), TRUE, now).status = 200
    /\ sessions' = Append(sessions, Session("join", tid, a, [x \in {tid} |-> tournaments[x]]))
    /\ UNCHANGED <<tournaments, entries, rounds, commits, now, call>>

\* join_tournament from main.py 272 on: the entry found missing at Begin is
\* inserted whatever has been committed since; an exception rolls the
\* request back
FinishJoin(i) ==
    /\ sessions[i].op = "join"
    /\ LET s == sessions[i]
           res == join_insert(WithLoaded(DB, s.rows), s.tid, s.agent, HashOf(s.agent), TRUE, now)
       IN IF res.status = 200
          THEN Store([res.db EXCEPT !.tournaments = FlushTournaments(DB, s.rows, res.db)])
          ELSE UNCHANGED <<tournaments, entries, rounds, commits>>
    /\ sessions' = Without(sessions, i)
    /\ UNCHANGED <<now, call>>

\* submit_reveal up to its deadline check, main.py 368-374
BeginReveal(a, tid) ==
    /\ Len(sessions) < MaxInFlight
    /\ \A b \in 1..(a - 1) : RevealArrived(b, tid)
    /\ submit_reveal(DB, tid, a, BidOf(a), SaltOf(a), now).status = 200
    /\ sessions' = Append(sessions, Session("reveal", tid, a, [x \in {tid} |-> tournaments[x]]))
    /\ UNCHANGED <<tournaments, entries, rounds, commits, now, call>>

\* submit_reveal from main.py 376 on; the deadline was compared with the
\* clock of Begin
FinishReveal(i) ==
    /\ sessions[i].op = "reveal"
    /\ LET s == sessions[i]
           res == submit_reveal(WithLoaded(DB, s.rows), s.tid, s.agent,
                                BidOf(s.agent), SaltOf(s.agent), s.t).db
       IN Store([res EXCEPT !.tournaments = FlushTournaments(DB, s.rows, res)])
    /\ sessions' = Without(sessions, i)
    /\ UNCHANGED <<now, call>>

\* a manager pass up to the query of process_phase_transitions, main.py 611-615
BeginTick ==
    /\ Len(sessions) < MaxInFlight
    /\ Due(DB, now) # {}
    /\ sessions' = Append(sessions, Session("tick", 0, 0, [x \in Due(DB, now) |-> tournaments[x]]))
    /\ UNCHANGED <<tournaments, entries, rounds, commits, now, call>>

\* the loop of process_phase_transitions over the selected rows, the expiry
\* sweep and the commit, main.py 616-650 and 583-584
FinishTick(i, chain) ==
    /\ sessions[i].op = "tick"
    /\ LET s == sessions[i]
           res == ProcessFrom(WithLoaded(DB, s.rows), DOMAIN s.rows, 1, now, chain)
       IN Store(cancel_expired_tournaments(
                    [res EXCEPT !.tournaments = FlushTournaments(DB, s.rows, res)], now))
    /\ sessions' = Without(sessions, i)
    /\ UNCHANGED <<now, call>>

\* a request lasts less than a second: the clock moves by a phase length
\* only when nothing is in flight
RaceClock(step) ==
    /\ now + step \in RaceClockValues
    /\ step > 1 => sessions = <<>>
    /\ now' = now + step
    /\ UNCHANGED <<tournaments, entries, rounds, commits, call, sessions>>

RaceNext ==
    \/ \E a \in Agents : BeginJoin(a, RaceTournament)
    \/ \E i \in DOMAIN sessions : FinishJoin(i)
    \/ \E a \in Players : BeginReveal(a, RaceTournament)
    \/ \E i \in DOMAIN sessions : FinishReveal(i)
    \/ BeginTick
    \/ \E i \in DOMAIN sessions : \E chain \in {{}, TIds} : FinishTick(i, chain)
    \/ \E step \in {1, REVEAL_DURATION} : RaceClock(step)

RaceSpec == Init /\ [][RaceNext]_vars

(***************************************************************************)
(* C24: overlapping ticks never double-resolve a round: when two           *)
(* executions of the tick interleave on the same tournament, each loading  *)
(* it before the other commits, the round is resolved once (its stored     *)
(* outcome is not rewritten), eliminations are applied once (nobody else   *)
(* is eliminated by the second execution), the round counter advances by   *)
(* one and at most one successor round is created.                         *)
(***************************************************************************)
\* the round records a resolution has created
SuccessorRounds(tid) ==
    {r \in DOMAIN rounds : rounds[r].tournament_id = tid /\ rounds[r].round_number > 1}

\* at most one round record per successor round number
C24_Inv ==
    \A tid \in TIds : \A n \in 2..Len(rounds) : Cardinality(FindRounds(DB, tid, n)) <= 1

C24_Step ==
    /\ \A r \in DOMAIN rounds :
           rounds[r].resolved_at # None =>
               /\ rounds'[r].secret_number = rounds[r].secret_number
               /\ rounds'[r].players_end = rounds[r].players_end
               /\ \A a \in Agents : \A i \in DOMAIN commits[r][a] :
                      commits'[r][a][i].eliminated = commits[r][a][i].eliminated
    /\ \A tid \in TIds :
           /\ tournaments'[tid].current_round - tournaments[tid].current_round \in {0, 1}
           /\ Cardinality({r \in DOMAIN rounds' : /\ rounds'[r].tournament_id = tid
                                                  /\ rounds'[r].round_number > 1})
                  - Cardinality(SuccessorRounds(tid))
              = IF tournaments[tid].current_round = 0 THEN 0
                ELSE tournaments'[tid].current_round - tournaments[tid].current_round

C24_OverlappingTicksResolveOnce == []C24_Inv /\ [][C24_Step]_vars

(***************************************************************************)
(* C25: reveal submissions and deadline evaluation are serialized: in no   *)
(* interleaving of a reveal request with a tick does a commitment end up   *)
(* stored as revealed while the resolution counted its participant as a    *)
(* non-revealer (flagged eliminated without a distance).                   *)
(***************************************************************************)
\* resolve_round flags a non-revealer's commitment eliminated and gives it
\* no distance
CountedAsNonRevealer(c) == c.eliminated /\ c.distance = None

C25_RevealedNeverCountedAsNonRevealer ==
    \A r \in DOMAIN rounds : \A a \in Agents : \A i \in DOMAIN commits[r][a] :
        commits[r][a][i].revealed => ~CountedAsNonRevealer(commits[r][a][i])

(***************************************************************************)
(* C26: concurrent joins are serialized per tournament: when two joins     *)
(* interleave on a tournament one seat short of capacity, it never has     *)
(* more entries than capacity, its stored population equals its number of  *)
(* entries, and it is started once, with exactly one Round 1.              *)
(***************************************************************************)
RECURSIVE EntryCount(_, _)
EntryCount(tid, a) ==
    IF a > NumAgents THEN 0 ELSE Len(entries[tid][a]) + EntryCount(tid, a + 1)

C26_JoinsSerialized ==
    \A tid \in TIds :
        /\ EntryCount(tid, 1) <= MAX_PLAYERS
        /\ tournaments[tid].player_count = EntryCount(tid, 1)
        /\ Cardinality(FindRounds(DB, tid, 1)) =
               (IF tournaments[tid].state \in {OPEN, CANCELLED} THEN 0 ELSE 1)

(***************************************************************************)
(* C27: the phase deadline is set only while the state is Commit or        *)
(* Reveal: it is unset in Open, Finished and Cancelled, and so is cleared  *)
(* when the tournament finishes.                                           *)
(***************************************************************************)
C27_DeadlineOnlyInPhase ==
    \A tid \in TIds :
        tournaments[tid].state \notin {COMMIT, REVEAL} => tournaments[tid].phase_deadline = None

(***************************************************************************)
(* The state column, assignment by assignment: a handler may assign it     *)
(* more than once within its transaction (start_tournament: ACTIVE, then   *)
(* REVEAL; an eliminating resolution: RESOLVING, then COMMIT).  The        *)
(* operators below list the values one execution assigns, in order.        *)
(***************************************************************************)
\* process_phase_transitions, for one selected tournament
TickStateWrites(d, tid, t) ==
    LET tournament == d.tournaments[tid]
        found == FindRounds(d, tid, tournament.current_round)
    IN IF Cardinality(found) # 1 THEN <<>>
       ELSE IF tournament.state = COMMIT THEN <<REVEAL>>
       ELSE IF tournament.state = REVEAL
       THEN (IF resolve_round(d, CHOOSE r \in found : TRUE, t).type = "elimination"
             THEN <<RESOLVING, COMMIT>>
             ELSE <<FINISHED>>)
       ELSE <<>>

\* join_tournament: start_tournament when the tournament fills up
JoinStateWrites(d, tid, agent, paid, t) ==
    IF /\ join_tournament(d, tid, agent, HashOf(agent), paid, t).status = 200
       /\ d.tournaments[tid].player_count + 1 >= MAX_PLAYERS
    THEN <<ACTIVE, REVEAL>> ELSE <<>>

\* cancel_expired_tournaments
CancelStateWrites(d, tid, t) ==
    IF d.tournaments[tid].state = OPEN /\ d.tournaments[tid].created_at < t - CANCEL_DEADLINE
    THEN <<CANCELLED>> ELSE <<>>

(***************************************************************************)
(* C28: every change of a tournament's state follows one of the edges      *)
(* Open->Active, Open->Cancelled, Active->Reveal, Commit->Reveal,          *)
(* Reveal->Resolving, Resolving->Commit, Resolving->Finished; no other     *)
(* edge occurs, so Finished and Commit are entered only from Resolving.    *)
(* Stated on every operation that can run in a reachable state: the        *)
(* values it assigns, from the stored state on, form a path of edges, and  *)
(* these assignments are the ones that lead to the state it stores.        *)
(***************************************************************************)
Edges ==
    {<<OPEN, ACTIVE>>, <<OPEN, CANCELLED>>, <<ACTIVE, REVEAL>>, <<COMMIT, REVEAL>>,
     <<REVEAL, RESOLVING>>, <<RESOLVING, COMMIT>>, <<RESOLVING, FINISHED>>}

FollowsEdges(path) ==
    \A i \in 1..(Len(path) - 1) : path[i] # path[i + 1] => <<path[i], path[i + 1]>> \in Edges

EndsIn(path, state) == path[Len(path)] = state

C28_OnlyListedEdges ==
    \A tid \in TIds :
        LET from == <<tournaments[tid].state>>
            tick == from \o TickStateWrites(DB, tid, now)
            cancel == from \o CancelStateWrites(DB, tid, now)
        IN /\ tid \in Due(DB, now) =>
                  /\ FollowsEdges(tick)
                  /\ \A ok \in BOOLEAN :
                         EndsIn(tick, ProcessTournament(DB, tid, now, ok).tournaments[tid].state)
           /\ FollowsEdges(cancel)
           /\ EndsIn(cancel, cancel_expired_tournaments(DB, now).tournaments[tid].state)
           /\ \A a \in Agents : \A paid \in BOOLEAN :
                  LET join == from \o JoinStateWrites(DB, tid, a, paid, now)
                  IN /\ FollowsEdges(join)
                     /\ EndsIn(join, join_tournament(DB, tid, a, HashOf(a), paid, now)
                                         .db.tournaments[tid].state)

(***************************************************************************)
(* C29: a commitment's revealed flag changes only from false to true, and  *)
(* so at most once; its value and nonce are stored exactly when the flag   *)
(* becomes true, satisfy hash(value, nonce) = stored hash (as hash values: *)
(* hex digits compare without regard to case), and never change            *)
(* afterwards; the stored hash never changes.                              *)
(***************************************************************************)
\* the rows attached to a round (round_id 0 holds the join commitments,
\* which cannot be revealed before they are attached)
CommitKeys == {k \in RoundIds \X Agents : commits[k[1]][k[2]] # <<>>}

C29_Inv ==
    \A k \in CommitKeys : \A i \in DOMAIN commits[k[1]][k[2]] :
        LET c == commits[k[1]][k[2]][i]
        IN /\ c.revealed <=> c.bid # None
           /\ c.revealed <=> c.salt # <<>>
           /\ c.revealed =>
                  FromHex(compute_commit_hash(c.bid, c.salt)) = FromHex(c.commit_hash)

C29_Step ==
    \A k \in CommitKeys :
        IF k[1] = 0 /\ commits'[0][k[2]] = <<>>
        THEN \* the join commitments of the agent are attached to a round, unchanged
             \E r \in RoundIds \ {0} :
                 LET moved == commits[r][k[2]] \o commits[0][k[2]]
                 IN /\ Len(commits'[r][k[2]]) >= Len(moved)
                    /\ SubSeq(commits'[r][k[2]], 1, Len(moved)) = moved
        ELSE \A i \in DOMAIN commits[k[1]][k[2]] :
                 LET c == commits[k[1]][k[2]][i]
                     n == commits'[k[1]][k[2]][i]
                 IN /\ n.commit_hash = c.commit_hash
                    /\ c.revealed => n.revealed /\ n.bid = c.bid /\ n.salt = c.salt
                    /\ n.revealed \/ (n.bid = None /\ n.salt = <<>>)

C29_RevealOnce == []C29_Inv /\ [][C29_Step]_vars

\* a revealed commitment of a round that has since been resolved and
\* followed by another round
C29_Witness ==
    \E r \in DOMAIN rounds : \E a \in Agents :
        /\ rounds[r].resolved_at # None
        /\ tournaments[rounds[r].tournament_id].current_round > rounds[r].round_number
        /\ commits[r][a] # <<>>
        /\ commits[r][a][1].revealed
        /\ commits[r][a][1].bid = BidOf(a)
        /\ commits[r][a][1].salt = SaltOf(a)
        /\ FromHex(compute_commit_hash(BidOf(a), SaltOf(a))) = FromHex(commits[r][a][1].commit_hash)

(***************************************************************************)
(* C30: within one tournament the round numbers are unique and are exactly *)
(* 1..current_round, without a gap, under any sequence of joins and ticks; *)
(* a round record is created only when the tournament starts or when a     *)
(* resolution opens a new Commit phase, and each time current_round grows  *)
(* by exactly 1.                                                           *)
(***************************************************************************)
RoundsOf(tid) == {r \in DOMAIN rounds : rounds[r].tournament_id = tid}

C30_Inv ==
    \A tid \in TIds :
        /\ {rounds[r].round_number : r \in RoundsOf(tid)} = 1..tournaments[tid].current_round
        /\ Cardinality(RoundsOf(tid)) = tournaments[tid].current_round

C30_Step ==
    \A tid \in TIds :
        LET created == {r \in DOMAIN rounds' : rounds'[r].tournament_id = tid} \ RoundsOf(tid)
            growth == tournaments'[tid].current_round - tournaments[tid].current_round
        IN /\ growth \in {0, 1}
           /\ Cardinality(created) = growth
           /\ RoundsOf(tid) \subseteq DOMAIN rounds'
           /\ \A r \in RoundsOf(tid) : rounds'[r].round_number = rounds[r].round_number
           /\ growth = 1 =>
                  \/ /\ tournaments[tid].state = OPEN
                     /\ tournaments'[tid].state = REVEAL
                     /\ tournaments'[tid].current_round = 1
                  \/ /\ tournaments[tid].state = REVEAL
                     /\ tournaments'[tid].state = COMMIT
                     /\ \E r \in FindRounds(DB, tid, tournaments[tid].current_round) :
                            rounds[r].resolved_at = None /\ rounds'[r].resolved_at # None

C30_RoundNumbering == []C30_Inv /\ [][C30_Step]_vars

\* a tournament in its second round, with the first one resolved
C30_Witness ==
    \E tid \in TIds :
        /\ tournaments[tid].current_round = 2
        /\ \E r1, r2 \in RoundsOf(tid) :
               /\ rounds[r1].round_number = 1 /\ rounds[r1].resolved_at # None
               /\ rounds[r2].round_number = 2

(***************************************************************************)
(* C31: each round closes exactly once: its resolved timestamp and its     *)
(* secret go from unset to set together, at most once, and never change    *)
(* afterwards; the distances and eliminated flags of its commitments do    *)
(* not change after that; and every round other than the current round of  *)
(* a running tournament is resolved.                                       *)
(***************************************************************************)
Resolved(r) == rounds[r].resolved_at # None

\* the current round of a tournament in Commit or Reveal
OpenRound(r) ==
    LET tournament == tournaments[rounds[r].tournament_id]
    IN /\ tournament.state \in {COMMIT, REVEAL}
       /\ tournament.current_round = rounds[r].round_number

C31_Inv ==
    \A r \in DOMAIN rounds :
        /\ Resolved(r) <=> rounds[r].secret_number # None
        /\ ~Resolved(r) => OpenRound(r)
        /\ ~Resolved(r) =>
               \A a \in Agents : \A i \in DOMAIN commits[r][a] :
                   ~commits[r][a][i].eliminated /\ commits[r][a][i].distance = None

C31_Step ==
    \A r \in DOMAIN rounds :
        Resolved(r) =>
            /\ rounds'[r].resolved_at = rounds[r].resolved_at
            /\ rounds'[r].secret_number = rounds[r].secret_number
            /\ DOMAIN commits'[r] = DOMAIN commits[r]
            /\ \A a \in Agents :
                   /\ Len(commits'[r][a]) = Len(commits[r][a])
                   /\ \A i \in DOMAIN commits[r][a] :
                          /\ commits'[r][a][i].distance = commits[r][a][i].distance
                          /\ commits'[r][a][i].eliminated = commits[r][a][i].eliminated

C31_RoundClosesOnce == []C31_Inv /\ [][C31_Step]_vars

\* a resolved first round, with its secret and a distance stored, whose
\* tournament has since moved through the Commit phase of the second round
C31_Witness ==
    \E r \in DOMAIN rounds :
        /\ Resolved(r)
        /\ rounds[r].round_number = 1
        /\ rounds[r].secret_number > 0
        /\ \E a \in Agents : commits[r][a] # <<>> /\ commits[r][a][1].distance # None
        /\ tournaments[rounds[r].tournament_id].current_round = 2
        /\ tournaments[rounds[r].tournament_id].state \in {REVEAL, FINISHED}
        /\ now > rounds[r].resolved_at

(***************************************************************************)
(* C32: under sequential joins a tournament's population equals its number *)
(* of entries and never exceeds MAX_PLAYERS; the tournament is Open only   *)
(* while the population is below capacity; the join that brings the        *)
(* population to capacity starts the tournament in the same step (Round 1  *)
(* created, state Reveal); and a participant holds at most one entry per   *)
(* tournament.                                                             *)
(***************************************************************************)
Population(tid) == tournaments[tid].player_count

C32_Inv ==
    \A tid \in TIds :
        /\ Population(tid) = EntryCount(tid, 1)
        /\ Population(tid) <= MAX_PLAYERS
        /\ tournaments[tid].state = OPEN => Population(tid) < MAX_PLAYERS
        /\ \A a \in Agents : Len(entries[tid][a]) <= 1

\* the step in which the population reaches capacity
C32_Step ==
    \A tid \in TIds :
        (Population(tid) < MAX_PLAYERS /\ tournaments'[tid].player_count >= MAX_PLAYERS) =>
            /\ tournaments[tid].state = OPEN
            /\ tournaments'[tid].state = REVEAL
            /\ tournaments'[tid].current_round = 1
            /\ \E r \in DOMAIN rounds' \ DOMAIN rounds :
                   /\ rounds'[r].tournament_id = tid
                   /\ rounds'[r].round_number = 1
                   /\ tournaments'[tid].phase_deadline = rounds'[r].reveal_deadline

C32_SequentialJoins == []C32_Inv /\ [][C32_Step]_vars

\* a tournament filled to capacity by its last join and started, beside a
\* tournament that is still open with seats free, one agent being entered
\* in both
C32_Witness ==
    \E tid, other \in TIds : \E a \in Agents :
        /\ Population(tid) = MAX_PLAYERS
        /\ tournaments[tid].state = REVEAL
        /\ tournaments[tid].current_round = 1
        /\ tournaments[other].state = OPEN
        /\ Population(other) > 0
        /\ Len(entries[tid][a]) = 1 /\ Len(entries[other][a]) = 1

(***************************************************************************)
(* C33: when a tick at time t moves a tournament from Commit to Reveal,    *)
(* the reveal deadline is t + REVEAL_DURATION, counted from the transition *)
(* and not from the commit deadline; in every Commit state the phase       *)
(* deadline equals the current round's commit deadline and in every Reveal *)
(* state its reveal deadline; and Round 1 has no Commit phase: state       *)
(* Commit implies current round >= 2.                                      *)
(***************************************************************************)
CurrentRounds(tid) == FindRounds(DB, tid, tournaments[tid].current_round)

C33_Inv ==
    \A tid \in TIds :
        LET tournament == tournaments[tid] IN
        /\ tournament.state = COMMIT =>
               /\ tournament.current_round >= 2
               /\ Cardinality(CurrentRounds(tid)) = 1
               /\ \A r \in CurrentRounds(tid) :
                      /\ tournament.phase_deadline = rounds[r].commit_deadline
                      /\ rounds[r].reveal_deadline = None
        /\ tournament.state = REVEAL =>
               /\ Cardinality(CurrentRounds(tid)) = 1
               /\ \A r \in CurrentRounds(tid) :
                      /\ tournament.phase_deadline = rounds[r].reveal_deadline
                      /\ rounds[r].round_number = 1 => rounds[r].commit_deadline = None

C33_Step ==
    \A tid \in TIds :
        (tournaments[tid].state = COMMIT /\ tournaments'[tid].state = REVEAL) =>
            /\ tournaments'[tid].current_round = tournaments[tid].current_round
            /\ now > tournaments[tid].phase_deadline
            /\ \A r \in CurrentRounds(tid) :
                   /\ rounds'[r].reveal_deadline = now + REVEAL_DURATION
                   /\ rounds'[r].commit_deadline = rounds[r].commit_deadline
                   /\ rounds'[r].reveal_deadline > rounds[r].commit_deadline + REVEAL_DURATION

C33_RevealDeadlineFromTransition == []C33_Inv /\ [][C33_Step]_vars

\* the reveal phase of a second round, opened by a tick
C33_Witness ==
    \E tid \in TIds : \E r \in CurrentRounds(tid) :
        /\ tournaments[tid].state = REVEAL
        /\ rounds[r].round_number = 2
        /\ rounds[r].commit_deadline # None
        /\ rounds[r].reveal_deadline > rounds[r].commit_deadline + REVEAL_DURATION

(***************************************************************************)
(* A tournament in a later round.  At the deployed capacity a first round  *)
(* of DeployedCapacity players with fourteen valid reveals leaves seven    *)
(* participants alive, and the second round opens in Commit for them.  The *)
(* scaled-down arena never gets there (its first round leaves three), so   *)
(* this specification starts where that first resolution ends: the         *)
(* entries modelled are the seven survivors, their Round 1 rows are kept,  *)
(* and the rows of the participants eliminated in Round 1 are left out.    *)
(* From there on the handlers and the manager run as in Spec.              *)
(***************************************************************************)
DeployedCapacity == 25
MaxLateSteps == 4
LateTournament == 1
LateSecret == 500

\* the first round was resolved by the tick at 2 * REVEAL_DURATION
LateStart == 2 * REVEAL_DURATION

LateClockValues == {LateStart + k * REVEAL_DURATION : k \in 0..MaxLateSteps}

LateInit ==
    /\ tournaments =
           [tid \in TIds |->
               IF tid = LateTournament
               THEN [NewTournament(0) EXCEPT !.state = COMMIT,
                                             !.player_count = DeployedCapacity,
                                             !.current_round = 2,
                                             !.started_at = 0,
                                             !.phase_deadline = LateStart + COMMIT_DURATION]
               ELSE NewTournament(0)]
    /\ entries = [tid \in TIds |->
                     [a \in Agents |-> IF tid = LateTournament THEN <<NewEntry>> ELSE <<>>]]
    /\ rounds = << [NewRound(LateTournament, 1, DeployedCapacity, None, REVEAL_DURATION)
                       EXCEPT !.secret_number = LateSecret,
                              !.players_end = NumAgents,
                              !.resolved_at = LateStart],
                   NewRound(LateTournament, 2, NumAgents, LateStart + COMMIT_DURATION, None) >>
    /\ commits = [r \in RoundIds |->
                     [a \in Agents |->
                         IF r = 1
                         THEN << [NewCommit(HashOf(a)) EXCEPT
                                     !.bid = BidOf(a), !.salt = SaltOf(a),
                                     !.revealed = TRUE,
                                     !.distance = Abs(BidOf(a) - LateSecret)] >>
                         ELSE <<>>]]
    /\ now = LateStart
    /\ call = NoCall
    /\ sessions = <<>>

LateClock(step) ==
    /\ now + step \in LateClockValues
    /\ now' = now + step
    /\ UNCHANGED <<tournaments, entries, rounds, commits, call, sessions>>

LateNext ==
    \/ \E a \in Agents : Commit(a, LateTournament)
    \/ \E a \in Agents : \E bid \in RevealBids(a) : Reveal(a, LateTournament, bid)
    \/ \E chain \in {{}, TIds} : ManagerPass(chain)
    \/ LateClock(REVEAL_DURATION)

LateSpec == LateInit /\ [][LateNext]_vars

(***************************************************************************)
(* C34: a new Commit phase opens for the survivors only: when a tournament *)
(* enters Commit for round r+1, the participants marked alive (those whose *)
(* commit can be accepted) are exactly the survivors returned by the       *)
(* resolution of round r, the new round's start population is the number   *)
(* of participants marked alive, and the alive set stays the same          *)
(* throughout the Commit phase.                                            *)
(***************************************************************************)
AliveIn(es, tid) == {a \in Agents : \E i \in DOMAIN es[tid][a] : es[tid][a][i].is_alive}

C34_Step ==
    \A tid \in TIds :
        /\ (tournaments'[tid].state = COMMIT
              /\ tournaments'[tid].current_round = tournaments[tid].current_round + 1) =>
               \A r \in CurrentRounds(tid) :
                   LET result == resolve_round(DB, r, now) IN
                   /\ result.type = "elimination"
                   /\ AliveIn(entries', tid) = SeqToSet(result.survivors)
                   /\ \A n \in DOMAIN rounds' \ DOMAIN rounds :
                          rounds'[n].players_start = Cardinality(AliveIn(entries', tid))
        /\ (tournaments[tid].state = COMMIT /\ tournaments'[tid].state = COMMIT) =>
               AliveIn(entries', tid) = AliveIn(entries, tid)

C34_CommitOpensForSurvivorsOnly == [][C34_Step]_vars

(***************************************************************************)
(* C35: the result of compute_secret depends only on the collection of     *)
(* nonce byte values: a list of the same length whose nonces are, in some  *)
(* order, nonces that reveal verification accepts for the commitments made *)
(* with the nonces of the call (the same bytes, in any arrival order and   *)
(* any hex letter case) yields the same secret, so a participant cannot    *)
(* change the secret by re-encoding a nonce that still verifies.           *)
(***************************************************************************)
\* salt verifies against the commitment made with the salt `committed`
StillVerifies(salt, committed) ==
    \A bid \in FnBids : verify_reveal(compute_commit_hash(bid, committed), bid, salt)

\* list l reveals, in some order, the commitments made with the salts of list m
SameNonces(l, m) ==
    /\ Len(l) = Len(m)
    /\ \E f \in Perms(Len(m)) : \A i \in DOMAIN m : StillVerifies(l[i], m[f[i]])

C35_SecretDependsOnBytesOnly ==
    (call.fn = "compute_secret" /\ call.done) =>
        \A l \in SaltLists : SameNonces(l, call.salts) => compute_secret(l) = call.ret

(***************************************************************************)
(* A manager pass in which the processing of one tournament raises.  The   *)
(* loop body of process_phase_transitions catches the exception, logs it   *)
(* and goes on; nothing is rolled back there.  What the pass leaves behind *)
(* depends on the session afterwards.  If it is still usable (the          *)
(* exception did not come from a flush), the changes made before the       *)
(* exception stay in the session and `await db.commit()` at the end of the *)
(* pass writes them with everything else.  If the exception came from a    *)
(* failed flush, the session refuses every later statement, the query of   *)
(* cancel_expired_tournaments raises out of the pass, and the session is   *)
(* closed without a commit: the whole pass is lost.  The failure modelled  *)
(* is the one between the return of resolve_round and the next statement.  *)
(***************************************************************************)
\* what the session holds for tournament tid when the exception is raised
ProcessInterrupted(d, tid, t) ==
    LET tournament == d.tournaments[tid]
        found == FindRounds(d, tid, tournament.current_round)
    IN
    IF Cardinality(found) # 1 THEN d
    ELSE IF tournament.state = REVEAL
         THEN resolve_round(d, CHOOSE r \in found : TRUE, t).db
         ELSE d

\* the loop of process_phase_transitions when tournament `failing` raises
RECURSIVE ProcessFaulty(_, _, _, _, _, _)
ProcessFaulty(d, due, tid, t, chain, failing) ==
    IF tid > NumTournaments THEN d
    ELSE ProcessFaulty(IF tid \notin due THEN d
                       ELSE IF tid = failing THEN ProcessInterrupted(d, tid, t)
                       ELSE ProcessTournament(d, tid, t, tid \in chain),
                       due, tid + 1, t, chain, failing)

\* usable: whether the session can still be committed after the exception
FailingPass(chain, failing, usable) ==
    /\ failing \in Due(DB, now)
    /\ tournaments[failing].state = REVEAL
    /\ IF usable
       THEN Store(cancel_expired_tournaments(
                      ProcessFaulty(DB, Due(DB, now), 1, now, chain, failing), now))
       ELSE UNCHANGED <<tournaments, entries, rounds, commits>>
    /\ UNCHANGED <<now, call, sessions>>

FaultNext ==
    \/ Next
    \/ \E chain \in {{}, TIds}, failing \in TIds, usable \in BOOLEAN :
           FailingPass(chain, failing, usable)

FaultSpec == Init /\ [][FaultNext]_vars

(***************************************************************************)
(* C36: an error leaves the aggregate untouched: when the processing of a  *)
(* tournament fails partway through a tick, after resolve_round, none of   *)
(* the changes made to the tournament, its round, commitments or entries   *)
(* are persisted, and the tournament is still selected by a later tick.    *)
(***************************************************************************)
\* the database after the step
DBAfter == [tournaments |-> tournaments', entries |-> entries',
            rounds |-> rounds', commits |-> commits']

C36_Step ==
    \A chain \in {{}, TIds}, failing \in TIds, usable \in BOOLEAN :
        FailingPass(chain, failing, usable) =>
            /\ TournamentView(DBAfter, failing) = TournamentView(DB, failing)
            /\ failing \in Due(DBAfter, now + 1)

C36_ErrorLeavesAggregateUntouched == [][C36_Step]_vars

(***************************************************************************)
(* C37: finalization happens in a dedicated terminal round.  A resolution  *)
(* with more than FINALIST_THRESHOLD valid reveals eliminates and opens a  *)
(* new Commit round, even when FINALIST_THRESHOLD or fewer participants    *)
(* survive it; a tournament finishes only on a resolution with             *)
(* FINALIST_THRESHOLD or fewer (possibly zero) valid reveals, and in that  *)
(* resolution nobody is split into survivors and eliminated: no entry is   *)
(* marked not alive and no valid reveal is flagged eliminated.             *)
(***************************************************************************)
\* the participants with a valid reveal in round r: the keys of revealed_bids
ValidRevealers(r) ==
    {a \in Agents : \E i \in DOMAIN commits[r][a] : CountsAsRevealed(commits[r][a][i])}

C37_Step ==
    \A tid \in TIds :
        LET old == tournaments[tid]
            new == tournaments'[tid]
        IN
        /\ (old.state # FINISHED /\ new.state = FINISHED) => old.state = REVEAL
        /\ (old.state = REVEAL /\ new.state # REVEAL) =>
               \A r \in CurrentRounds(tid) :
                   IF Cardinality(ValidRevealers(r)) > FINALIST_THRESHOLD
                   THEN /\ new.state = COMMIT
                        /\ new.current_round = old.current_round + 1
                        /\ rounds'[r].players_end < Cardinality(ValidRevealers(r))
                        /\ \E n \in DOMAIN rounds' \ DOMAIN rounds :
                               /\ rounds'[n].round_number = new.current_round
                               /\ rounds'[n].players_start = rounds'[r].players_end
                   ELSE /\ new.state = FINISHED
                        /\ new.current_round = old.current_round
                        /\ rounds'[r].players_end = Cardinality(ValidRevealers(r))
                        /\ AliveIn(entries', tid) = AliveIn(entries, tid)
                        /\ \A a \in ValidRevealers(r) : \A i \in DOMAIN commits'[r][a] :
                               CountsAsRevealed(commits'[r][a][i]) =>
                                   ~commits'[r][a][i].eliminated

C37_FinalizationInTerminalRound == [][C37_Step]_vars

\* a tournament finished in its second round by a resolution with valid
\* reveals, after a first round that left no more than FINALIST_THRESHOLD
\* survivors
C37_Witness ==
    \E tid \in TIds : \E r1 \in FindRounds(DB, tid, 1) : \E r2 \in FindRounds(DB, tid, 2) :
        /\ tournaments[tid].state = FINISHED
        /\ tournaments[tid].current_round = 2
        /\ rounds[r1].players_end <= FINALIST_THRESHOLD
        /\ rounds[r1].players_end > 0
        /\ ValidRevealers(r2) # {}

(***************************************************************************)
(* C38: submissions are gated by the stored deadline, not only by the      *)
(* state: a commit or reveal arriving later than the phase deadline is     *)
(* rejected even when no tick has yet moved the tournament out of the      *)
(* phase, while a tick at that time closes the phase; so at no clock value *)
(* can a submission be accepted for the current phase and a tick close the *)
(* phase.                                                                  *)
(***************************************************************************)
\* some commit or reveal request for tournament tid is accepted at time t
SubmissionAccepted(tid, t) ==
    \E a \in Agents :
        \/ submit_commit(DB, tid, a, HashOf(a), t).status = 200
        \/ \E bid \in RevealBids(a), salt \in RevealSalts(a) :
               submit_reveal(DB, tid, a, bid, salt, t).status = 200

\* a tick at time t moves tournament tid out of its phase
TickCloses(tid, t) ==
    \E chain \in {{}, TIds} :
        process_phase_transitions(DB, t, chain).tournaments[tid].state # tournaments[tid].state

C38_SubmissionsGatedByDeadline ==
    \A tid \in TIds :
        /\ ~(SubmissionAccepted(tid, now) /\ TickCloses(tid, now))
        /\ (InPhase(tid) /\ now > tournaments[tid].phase_deadline) =>
               ~SubmissionAccepted(tid, now) /\ TickCloses(tid, now)
        /\ (InPhase(tid) /\ now <= tournaments[tid].phase_deadline) => ~TickCloses(tid, now)

\* a reveal phase past its deadline that no tick has closed yet: the reveal
\* that was acceptable at the deadline is refused as late
C38_Witness ==
    \E tid \in TIds : \E a \in Agents :
        /\ tournaments[tid].state = REVEAL
        /\ now > tournaments[tid].phase_deadline
        /\ submit_reveal(DB, tid, a, BidOf(a), SaltOf(a),
                         tournaments[tid].phase_deadline).status = 200
        /\ submit_reveal(DB, tid, a, BidOf(a), SaltOf(a), now).detail = "Reveal phase ended"

(***************************************************************************)
(* C39: populations only shrink: for every resolved round players_end is   *)
(* at most players_start, the number of commitments in a round never       *)
(* exceeds its players_start, and the players_start of round r+1 is        *)
(* strictly smaller than that of round r.                                  *)
(***************************************************************************)
\* the number of RoundCommit rows of round r, counted from agent a on
RECURSIVE CommitCount(_, _)
CommitCount(r, a) ==
    IF a > NumAgents THEN 0 ELSE Len(commits[r][a]) + CommitCount(r, a + 1)

C39_PopulationsOnlyShrink ==
    \A r \in DOMAIN rounds :
        /\ Resolved(r) => rounds[r].players_end <= rounds[r].players_start
        /\ CommitCount(r, 1) <= rounds[r].players_start
        /\ \A n \in DOMAIN rounds :
               (/\ rounds[n].tournament_id = rounds[r].tournament_id
                /\ rounds[n].round_number = rounds[r].round_number + 1) =>
                   rounds[n].players_start < rounds[r].players_start

(***************************************************************************)
(* The external settlement calls of one manager pass.  Every tournament of *)
(* the model was created by ensure_open_tournaments, which stores the      *)
(* chain_id returned by create_tournament, so `t.chain_id is not None`     *)
(* holds for all of them.                                                  *)
(***************************************************************************)
\* the calls the pass at time t attempts for tournament tid, from database d
SettlementCalls(d, tid, t) ==
    LET tournament == d.tournaments[tid]
        found == FindRounds(d, tid, tournament.current_round)
        resolve ==
            IF /\ tid \in Due(d, t)
               /\ Cardinality(found) = 1
               /\ tournament.state = REVEAL
               /\ resolve_round(d, CHOOSE r \in found : TRUE, t).type = "final"
            THEN {"resolve_tournament"} ELSE {}
        cancel ==
            IF tournament.state = OPEN /\ tournament.created_at < t - CANCEL_DEADLINE
            THEN {"cancel_tournament"} ELSE {}
    IN resolve \cup cancel

(***************************************************************************)
(* C40: every tournament that reaches a terminal state has an external     *)
(* settlement call attempted in the step that makes it terminal: a resolve *)
(* call when it becomes Finished, by final ranking or by a void round, and *)
(* a cancel call when it becomes Cancelled.                                *)
(***************************************************************************)
C40_TerminalStateSettled ==
    \A tid \in TIds : \A chain \in {{}, TIds} :
        LET after == cancel_expired_tournaments(process_phase_transitions(DB, now, chain), now)
            calls == SettlementCalls(DB, tid, now)
        IN /\ (tournaments[tid].state # FINISHED /\ after.tournaments[tid].state = FINISHED) =>
                  "resolve_tournament" \in calls
           /\ (tournaments[tid].state # CANCELLED /\ after.tournaments[tid].state = CANCELLED) =>
                  "cancel_tournament" \in calls

=============================================================================
